---------------------------- MODULE Spec2Model ----------------------------
(***************************************************************************)
(* Provider registry (providers/core/provider_manager.py) and the          *)
(* concurrent multi-model test orchestrator (src/web/app.py) of Kusha.     *)
(*                                                                         *)
(* Python strings are modelled as sequences of one-token strings, so that  *)
(* f-string formatting, startswith and equality of cache keys are computed *)
(* the way the code computes them.                                         *)
(***************************************************************************)
EXTENDS Integers, Sequences, FiniteSets, TLC

VARIABLES
    phase,        \* "constructing" | "warmed" | "serving": life of the process
    providers,    \* ProviderManager.providers (ids of the loaded descriptors)
    classCache,   \* ProviderManager._provider_classes_cache (ids)
    instCache,    \* ProviderManager._provider_instances_cache: cache key -> instance
    apiKeys,      \* ProviderManager._api_keys_cache: provider id -> credential
    dbKeys,       \* table api_keys of the database: provider id -> credential
    nextId,       \* identity of the next adapter object to be constructed
    warmFailed,   \* providers _warm_up_providers reported as failed
    batch,        \* the running test_multiple_models request
    response,     \* what the last test_multiple_models request returned
    disk,         \* the provider directories under providers_dir
    loader,       \* _load_providers: its position, and the values of providers
    probe,        \* a connectivity probe: its arguments and what it returned
    construction, \* an adapter constructor call: its arguments and what it did
    temp_file,    \* whether the file named temp_file.name exists
    threads,      \* threads calling the ProviderManager, each at its position
    pool          \* the ThreadPoolExecutor of a batch, by numbers of tasks

\* the descriptor files and the loader that reads them
descriptorVars == <<disk, loader>>

vars == <<phase, providers, classCache, instCache, apiKeys, dbKeys,
          nextId, warmFailed, batch, response, disk, loader, probe,
          construction, temp_file, threads, pool>>

---------------------------------------------------------------------------
(* Bounds of the model *)

\* adapter objects constructed in one run
MaxInstances == 2
\* model ids in the model_ids form field of one batch request
MaxSelected == 2
\* provider directories under providers_dir
MaxDirs == 2
\* models, and languages, a descriptor file lists
MaxListed == 1
\* tasks of one batch, where only their number is followed
MaxBatch == 51

---------------------------------------------------------------------------
(* Python values *)

None == <<"None">>
EmptyStr == <<>>

\* truth value of an Optional[str]: None and "" are falsy
Truthy(x) == x # None /\ x # EmptyStr

\* str.startswith
StartsWith(s, prefix) ==
    /\ Len(s) >= Len(prefix)
    /\ SubSeq(s, 1, Len(prefix)) = prefix

\* dict.get(key) with default None
DictGet(d, key) == IF key \in DOMAIN d THEN d[key] ELSE None

\* dict with key removed (dict.pop(key, None))
DictPop(d, key) == [x \in DOMAIN d \ {key} |-> d[x]]

\* d[key] = value
DictSet(d, key, value) == [x \in DOMAIN d \cup {key} |-> IF x = key THEN value ELSE d[x]]

EmptyDict == [x \in {} |-> None]

Max(a, b) == IF a >= b THEN a ELSE b

---------------------------------------------------------------------------
(* Provider descriptors: the config.json files under providers/ *)

PA == <<"a">>
PAB == <<"a", "_", "b">>
PZ == <<"z">>

\* provider directories that can exist on disk
ProviderUniverse == {PA, PAB}
\* provider ids a caller can name (PZ is never on disk)
ProviderIds == {PA, PAB, PZ}
\* iteration order of the providers dict
ProviderOrder == <<PA, PAB>>

K1 == <<"b">>
K2 == <<"k">>
Credentials == {None, EmptyStr, K1, K2}
\* api_keys.api_key is what save_api_key accepts: a non-empty string
StoredCredentials == {K1, K2}

\* config['provider'].get('requires_api_key', True)
RequiresApiKey(p) == p = PA

\* config['models']: model id and supported_languages
ModelsOf(p) ==
    IF p = PA THEN << [id |-> <<"m1">>, supported_languages |-> {"en"}],
                      [id |-> <<"m2">>, supported_languages |-> {"hi"}] >>
    ELSE IF p = PAB THEN << [id |-> <<"m1">>, supported_languages |-> {"en", "hi"}] >>
    ELSE << >>

Languages == {"en", "hi"}

---------------------------------------------------------------------------
(* ProviderManager *)

NoInstance == [id |-> 0, provider_id |-> None, api_key |-> None]

\* CacheKey as if the credential were left out of the key
CacheKeyWithoutCredential(p, k) == p

\* cache_key = f"{provider_id}_{api_key}" if api_key else provider_id
CacheKey(p, k) == IF Truthy(k) THEN p \o <<"_">> \o k ELSE p

\* provider_class(config, api_key) / provider_class(config)
NewInstance(id, p, k) ==
    [id |-> id, provider_id |-> p, api_key |-> IF RequiresApiKey(p) THEN k ELSE None]

\* _load_provider_class: imports the module and caches the class, or raises
LoadProviderClass(cc, p, loadOk) ==
    [raised |-> ~loadOk, classCache |-> IF loadOk THEN cc \cup {p} ELSE cc]

\* GetProviderInstance as if the membership test of line 202 were missing: the
\* lookup of an unknown id then fails inside _load_provider_class
GetProviderInstanceUnchecked(provs, cc, ic, nid, p, k, loadOk, initOk) ==
    LET key == IF Truthy(k) THEN p \o <<"_">> \o k ELSE p
        unchanged == [classCache |-> cc, instCache |-> ic, nextId |-> nid,
                      constructed |-> FALSE]
    IN  IF key \in DOMAIN ic
        THEN [raised |-> "none", instance |-> ic[key]] @@ unchanged
        ELSE IF p \notin provs \/ (p \notin cc /\ ~loadOk) \/ ~initOk
        THEN [raised |-> "Exception", instance |-> NoInstance] @@ unchanged
        ELSE LET inst == NewInstance(nid, p, k)
             IN  [raised |-> "none", instance |-> inst,
                  classCache |-> cc \cup {p},
                  instCache |-> DictSet(ic, key, inst),
                  nextId |-> nid + 1, constructed |-> TRUE]

\* GetProviderInstance as if the constructor of a provider that requires a
\* credential refused a missing one
GetProviderInstanceRequiringCredential(provs, cc, ic, nid, p, k, loadOk, initOk) ==
    LET key == CacheKey(p, k)
        unchanged == [classCache |-> cc, instCache |-> ic, nextId |-> nid,
                      constructed |-> FALSE]
    IN  IF p \notin provs
        THEN [raised |-> "ValueError", instance |-> NoInstance] @@ unchanged
        ELSE IF key \in DOMAIN ic
        THEN [raised |-> "none", instance |-> ic[key]] @@ unchanged
        ELSE LET ld == IF p \in cc THEN [raised |-> FALSE, classCache |-> cc]
                       ELSE LoadProviderClass(cc, p, loadOk)
             IN  IF ld.raised
                 THEN [raised |-> "Exception", instance |-> NoInstance] @@ unchanged
                 ELSE IF ~initOk \/ (RequiresApiKey(p) /\ ~Truthy(k))
                 THEN [raised |-> "Exception", instance |-> NoInstance,
                       classCache |-> ld.classCache, instCache |-> ic,
                       nextId |-> nid, constructed |-> FALSE]
                 ELSE LET inst == NewInstance(nid, p, k)
                      IN  [raised |-> "none", instance |-> inst,
                           classCache |-> ld.classCache,
                           instCache |-> DictSet(ic, key, inst),
                           nextId |-> nid + 1, constructed |-> TRUE]

\* get_provider_instance on the registry state <<provs, cc, ic, nid>>; loadOk
\* and initOk say whether the import and the adapter constructor succeed
GetProviderInstance(provs, cc, ic, nid, p, k, loadOk, initOk) ==
    LET key == CacheKey(p, k)
        unchanged == [classCache |-> cc, instCache |-> ic, nextId |-> nid,
                      constructed |-> FALSE]
    IN  IF p \notin provs
        THEN [raised |-> "ValueError", instance |-> NoInstance] @@ unchanged
        ELSE IF key \in DOMAIN ic
        THEN [raised |-> "none", instance |-> ic[key]] @@ unchanged
        ELSE LET ld == IF p \in cc THEN [raised |-> FALSE, classCache |-> cc]
                       ELSE LoadProviderClass(cc, p, loadOk)
             IN  IF ld.raised
                 THEN [raised |-> "Exception", instance |-> NoInstance] @@ unchanged
                 ELSE IF ~initOk
                 THEN [raised |-> "Exception", instance |-> NoInstance,
                       classCache |-> ld.classCache, instCache |-> ic,
                       nextId |-> nid, constructed |-> FALSE]
                 ELSE LET inst == NewInstance(nid, p, k)
                      IN  [raised |-> "none", instance |-> inst,
                           classCache |-> ld.classCache,
                           instCache |-> DictSet(ic, key, inst),
                           nextId |-> nid + 1, constructed |-> TRUE]

\* CacheApiKey as if the try/except around the warming were missing
CacheApiKeyPropagating(provs, cc, ic, nid, ak, p, k, loadOk, initOk) ==
    LET g == GetProviderInstance(provs, cc, ic, nid, p, k, loadOk, initOk)
    IN  IF Truthy(k)
        THEN [raised |-> g.raised # "none", apiKeys |-> DictSet(ak, p, k),
              classCache |-> g.classCache, instCache |-> g.instCache,
              nextId |-> g.nextId, constructed |-> g.constructed,
              instance |-> g.instance]
        ELSE [raised |-> FALSE, apiKeys |-> DictSet(ak, p, k), classCache |-> cc,
              instCache |-> ic, nextId |-> nid,
              constructed |-> FALSE, instance |-> NoInstance]

\* cache_api_key: stores the credential, then warms an instance for a truthy one
CacheApiKey(provs, cc, ic, nid, ak, p, k, loadOk, initOk) ==
    LET ak2 == DictSet(ak, p, k)
        g == GetProviderInstance(provs, cc, ic, nid, p, k, loadOk, initOk)
    IN  IF Truthy(k)
        THEN [raised |-> FALSE, apiKeys |-> ak2, classCache |-> g.classCache,
              instCache |-> g.instCache, nextId |-> g.nextId,
              constructed |-> g.constructed, instance |-> g.instance]
        ELSE [raised |-> FALSE, apiKeys |-> ak2, classCache |-> cc,
              instCache |-> ic, nextId |-> nid,
              constructed |-> FALSE, instance |-> NoInstance]

\* keys_to_remove of clear_api_key_cache(provider_id)
KeysToRemove(ic, p) == {key \in DOMAIN ic : StartsWith(key, p \o <<"_">>)}

\* clear_api_key_cache(provider_id): the instance cache afterwards
ClearInstances(ic, p) ==
    IF Truthy(p) THEN [key \in DOMAIN ic \ KeysToRemove(ic, p) |-> ic[key]]
    ELSE EmptyDict

\* clear_api_key_cache(provider_id): the credential cache afterwards
ClearApiKeys(ak, p) == IF Truthy(p) THEN DictPop(ak, p) ELSE EmptyDict

\* get_cached_api_key
GetCachedApiKey(ak, p) == DictGet(ak, p)

---------------------------------------------------------------------------
(* The descriptor store: _load_providers over the provider directories *)

\* what a provider directory can hold: config.json missing, not parseable, or
\* parsed with or without config['provider']['id'], a display name, models
\* and languages; impl says whether the directory has a *.py file
DirEntries ==
    {e \in [config : {"missing", "unreadable", "parsed"},
            id : {None} \cup ProviderUniverse, name : BOOLEAN,
            models : 0..MaxListed, languages : 0..MaxListed, impl : BOOLEAN] :
        e.config # "parsed" =>
            (e.id = None /\ ~e.name /\ e.models = 0 /\ e.languages = 0)}

\* the directory of provider p as the repository ships it
Installed(p) ==
    [config |-> "parsed", id |-> p, name |-> TRUE, models |-> MaxListed,
     languages |-> MaxListed, impl |-> TRUE]

InstalledDisk == [i \in 1..Len(ProviderOrder) |-> Installed(ProviderOrder[i])]

\* the directory listings _load_providers can find
Disks == UNION {[1..n -> DirEntries] : n \in 0..MaxDirs}

\* the entry of self.providers for the directory e; provider_type is filled
\* in from the directory the descriptor was found in
StoredConfig(e) ==
    [name |-> e.name, provider_type |-> "ASR", models |-> e.models,
     languages |-> e.languages]

\* _load_provider on the directory e; st.providers are the keys and
\* st.config the values of self.providers
LoadProvider(st, e) ==
    IF e.config = "missing" THEN st
    ELSE IF e.config = "unreadable" THEN st
    ELSE IF e.id = None THEN st
    ELSE IF ~e.impl THEN st
    ELSE [providers |-> st.providers \cup {e.id},
          config |-> DictSet(st.config, e.id, StoredConfig(e))]

\* the loop of _load_providers over the directories d[i..]
RECURSIVE LoadProvidersFrom(_, _, _)
LoadProvidersFrom(d, i, st) ==
    IF i > Len(d) THEN st
    ELSE LoadProvidersFrom(d, i + 1, LoadProvider(st, d[i]))

\* self.providers after a complete _load_providers on the directories d
LoadedFrom(d) == LoadProvidersFrom(d, 1, [providers |-> {}, config |-> EmptyDict])

\* the loader before the first call of _load_providers
NotLoaded == [pc |-> "idle", next |-> 1, loaded |-> FALSE, config |-> EmptyDict]

\* the loader after _load_providers has run on the directories d
LoaderAfter(d) ==
    [pc |-> "idle", next |-> Len(d) + 1, loaded |-> TRUE,
     config |-> LoadedFrom(d).config]

\* get_provider_config
GetProviderConfig(provs, config, p) == IF p \in provs THEN config[p] ELSE None

---------------------------------------------------------------------------
(* Construction of the ProviderManager *)

Idle == [pc |-> "idle", language |-> "en", selected_model_ids |-> <<>>,
         tasks |-> <<>>, workers |-> <<>>, results |-> <<>>,
         scheduled |-> <<>>, sync_writes |-> <<>>]

NoSession == [successful_models |-> 0, failed_models |-> 0, total_models |-> 0,
              total_duration |-> 0,
              avg_processing_time |-> [num |-> 0, den |-> 1],
              avg_confidence |-> [num |-> 0, den |-> 1]]

\* what a probe returns: the success flag of the result value, whether a
\* request was sent to the vendor, and the status the vendor answered with
NoProbeResult == [raised |-> FALSE, success |-> FALSE, called |-> FALSE,
                  answer |-> "none"]

\* no probe has been asked for
NoProbe == [pc |-> "none", via |-> "none", cls |-> "none", provider_id |-> None,
            api_key |-> None, net |-> "none", result |-> NoProbeResult]

\* no adapter constructor has been called
NoConstruction == [pc |-> "none", cls |-> "none", api_key |-> None,
                   net |-> "none", access_token |-> None, requests |-> <<>>]

\* no thread is calling the ProviderManager
NoThreads == <<>>

\* no executor has been created
NoPool == [pc |-> "none", n |-> 0, max_workers |-> 0, running |-> 0,
           finished |-> 0]

NoResponse == [status |-> 0, language |-> "en", selected_model_ids |-> <<>>,
               results |-> <<>>, session |-> NoSession,
               scheduled |-> <<>>, sync_writes |-> <<>>, outcome |-> <<>>]

Init ==
    /\ phase = "constructing"
    /\ providers = ProviderUniverse
    /\ classCache = {}
    /\ instCache = EmptyDict
    /\ apiKeys = EmptyDict
    /\ dbKeys \in {EmptyDict} \cup {[p \in {PA} |-> k] : k \in StoredCredentials}
    /\ nextId = 1
    /\ warmFailed = {}
    /\ batch = Idle
    /\ response = NoResponse
    /\ disk = InstalledDisk
    /\ loader = LoaderAfter(InstalledDisk)
    /\ probe = NoProbe
    /\ construction = NoConstruction
    /\ temp_file = FALSE
    /\ threads = NoThreads
    /\ pool = NoPool

WarmOutcomes == {"ok", "load_fail", "init_fail"}

\* WarmUpFrom as if the try/except enclosed the loop: the first failure ends it
RECURSIVE WarmUpFromAborting(_, _, _, _)
WarmUpFromAborting(order, i, st, f) ==
    IF i > Len(order) THEN st
    ELSE LET p == order[i]
         IN  IF p \notin st.providers THEN WarmUpFromAborting(order, i + 1, st, f)
             ELSE IF f[p] = "load_fail" THEN [st EXCEPT !.failed = @ \cup {p}]
             ELSE IF RequiresApiKey(p)
             THEN WarmUpFromAborting(order, i + 1,
                                     [st EXCEPT !.classCache = @ \cup {p}], f)
             ELSE IF f[p] = "init_fail"
             THEN [st EXCEPT !.classCache = @ \cup {p}, !.failed = @ \cup {p}]
             ELSE WarmUpFromAborting(order, i + 1,
                    [st EXCEPT !.classCache = @ \cup {p},
                               !.instCache = DictSet(@, p, NewInstance(st.nextId, p, None)),
                               !.nextId = @ + 1], f)

\* the loop of _warm_up_providers over order[i..], f[p] the fate of provider p
RECURSIVE WarmUpFrom(_, _, _, _)
WarmUpFrom(order, i, st, f) ==
    IF i > Len(order) THEN st
    ELSE LET p == order[i]
         IN  IF p \notin st.providers THEN WarmUpFrom(order, i + 1, st, f)
             ELSE LET ld == LoadProviderClass(st.classCache, p, f[p] # "load_fail")
                  IN  IF ld.raised
                      THEN WarmUpFrom(order, i + 1,
                                      [st EXCEPT !.failed = @ \cup {p}], f)
                      ELSE IF RequiresApiKey(p)
                      THEN WarmUpFrom(order, i + 1,
                                      [st EXCEPT !.classCache = ld.classCache], f)
                      ELSE LET g == GetProviderInstance(st.providers, ld.classCache,
                                        st.instCache, st.nextId, p, None,
                                        TRUE, f[p] # "init_fail")
                           IN  WarmUpFrom(order, i + 1,
                                 [st EXCEPT !.classCache = g.classCache,
                                            !.instCache = g.instCache,
                                            !.nextId = g.nextId,
                                            !.failed = IF g.raised = "none" THEN @
                                                       ELSE @ \cup {p}], f)

\* _warm_up_providers on the registry state, f[p] the fate of provider p
WarmUp(provs, cc, ic, nid, f) ==
    WarmUpFrom(ProviderOrder, 1,
               [providers |-> provs, classCache |-> cc, instCache |-> ic,
                nextId |-> nid, failed |-> {}], f)

\* ProviderManager.__init__ from the call of _warm_up_providers on
WarmUpProviders ==
    /\ phase = "constructing"
    /\ \E f \in [providers -> WarmOutcomes] :
         LET st == WarmUp(providers, classCache, instCache, nextId, f)
         IN  /\ classCache' = st.classCache
             /\ instCache' = st.instCache
             /\ nextId' = st.nextId
             /\ warmFailed' = st.failed
    /\ phase' = "warmed"
    /\ UNCHANGED <<pool, construction, temp_file, threads, providers, descriptorVars, probe, apiKeys, dbKeys, batch, response>>

---------------------------------------------------------------------------
(* The registry's public calls, made by any caller of a constructed manager *)

Constructed == phase = "warmed"

\* whether the import of a provider module and its constructor succeed
Env == [loadOk : BOOLEAN, initOk : BOOLEAN]

get_provider_instance(p, k) ==
    /\ Constructed
    /\ \E loadOk \in BOOLEAN, initOk \in BOOLEAN :
         LET g == GetProviderInstance(providers, classCache, instCache, nextId,
                                      p, k, loadOk, initOk)
         IN  /\ g.nextId <= MaxInstances + 1
             /\ classCache' = g.classCache
             /\ instCache' = g.instCache
             /\ nextId' = g.nextId
    /\ UNCHANGED <<pool, construction, temp_file, threads, phase, providers, descriptorVars, probe, apiKeys, dbKeys, warmFailed, batch, response>>

cache_api_key(p, k) ==
    /\ Constructed
    /\ \E loadOk \in BOOLEAN, initOk \in BOOLEAN :
         LET c == CacheApiKey(providers, classCache, instCache, nextId, apiKeys,
                              p, k, loadOk, initOk)
         IN  /\ c.nextId <= MaxInstances + 1
             /\ classCache' = c.classCache
             /\ instCache' = c.instCache
             /\ nextId' = c.nextId
             /\ apiKeys' = c.apiKeys
    /\ UNCHANGED <<pool, construction, temp_file, threads, phase, providers, descriptorVars, probe, dbKeys, warmFailed, batch, response>>

\* the calls of get_provider_instance under way or returned, after an
\* invalidation of p (None: of every provider) has completed: each call that
\* concerns p remembers it
Invalidated(ths, p) ==
    [t \in DOMAIN ths |->
        IF ths[t].pc # "idle" /\ (p = None \/ ths[t].provider_id = p)
        THEN [ths[t] EXCEPT !.invalidated = TRUE]
        ELSE ths[t]]

clear_api_key_cache(p) ==
    /\ Constructed
    /\ apiKeys' = ClearApiKeys(apiKeys, p)
    /\ instCache' = ClearInstances(instCache, p)
    /\ threads' = Invalidated(threads, p)
    /\ UNCHANGED <<pool, construction, temp_file, phase, providers, descriptorVars, probe, classCache, dbKeys, nextId, warmFailed,
                   batch, response>>

RegistryNext ==
    \/ WarmUpProviders
    \/ \E p \in ProviderIds, k \in Credentials : get_provider_instance(p, k)
    \/ \E p \in ProviderIds, k \in Credentials : cache_api_key(p, k)
    \/ \E p \in ProviderIds \cup {None} : clear_api_key_cache(p)

\* a manager constructed in a process whose database holds no credential
RegistryInit == Init /\ dbKeys = EmptyDict

\* the ProviderManager class under any sequence of calls
RegistrySpec == RegistryInit /\ [][RegistryNext]_vars

---------------------------------------------------------------------------
(* Properties of the registry, checked under RegistrySpec *)

\* the cache keys under which an instance of provider p is cached in ic
InstanceKeysOf(ic, p) == {key \in DOMAIN ic : ic[key].provider_id = p}

\* a call of clear_api_key_cache
SomeClear == \E p \in ProviderIds \cup {None} : clear_api_key_cache(p)

\* C1, as the claim states it: for every provider p of the store and any two
\* different credential values k1 # k2 (absent, empty or non-empty), a resolve
\* of (p, k1) followed by a resolve of (p, k2) returns two distinct objects.
C1_DistinctForAnyTwoCredentials ==
    \A p \in providers, k1 \in Credentials, k2 \in Credentials, e1 \in Env, e2 \in Env :
        LET g1 == GetProviderInstance(providers, classCache, instCache, nextId,
                                      p, k1, e1.loadOk, e1.initOk)
            g2 == GetProviderInstance(providers, g1.classCache, g1.instCache,
                                      g1.nextId, p, k2, e2.loadOk, e2.initOk)
        IN  (Constructed /\ k1 # k2 /\ g1.raised = "none" /\ g2.raised = "none")
                => g1.instance.id # g2.instance.id

\* C1, amended: a resolve of (p, k) that returns leaves its object cached under
\* the key of (p, k); a second resolve of (p, k) returns that identical object
\* without constructing; a resolve of (p, k2) with k2 # k1 returns a distinct
\* object unless k1 and k2 are both absent or empty; and no call other than
\* clear_api_key_cache removes or replaces a cached object.
C1_ResolveIdentity ==
    /\ [](\A p \in providers, k1 \in Credentials, e1 \in Env :
            LET g1 == GetProviderInstance(providers, classCache, instCache, nextId,
                                          p, k1, e1.loadOk, e1.initOk)
            IN  g1.raised = "none" =>
                  /\ CacheKey(p, k1) \in DOMAIN g1.instCache
                  /\ g1.instCache[CacheKey(p, k1)] = g1.instance
                  /\ \A k2 \in Credentials, e2 \in Env :
                       LET g2 == GetProviderInstance(providers, g1.classCache,
                                     g1.instCache, g1.nextId, p, k2,
                                     e2.loadOk, e2.initOk)
                       IN  /\ k2 = k1 => /\ g2.raised = "none"
                                         /\ g2.instance = g1.instance
                                         /\ ~g2.constructed
                           /\ (k2 # k1 /\ (Truthy(k1) \/ Truthy(k2))
                                 /\ g2.raised = "none")
                                => g2.instance.id # g1.instance.id
                           /\ (~Truthy(k1) /\ ~Truthy(k2))
                                => g2.instance = g1.instance)
    /\ [][~SomeClear => \A key \in DOMAIN instCache :
                           /\ key \in DOMAIN instCache'
                           /\ instCache'[key] = instCache[key]]_vars

\* C1 witness: one provider has two objects cached under two credentials
C1_TwoCredentialsCached ==
    \E p \in providers, k1 \in Credentials, k2 \in Credentials :
        /\ k1 # k2
        /\ CacheKey(p, k1) \in InstanceKeysOf(instCache, p)
        /\ CacheKey(p, k2) \in InstanceKeysOf(instCache, p)
        /\ instCache[CacheKey(p, k1)].id # instCache[CacheKey(p, k2)].id

\* C2, as the claim states it: a step clear_api_key_cache(p) leaves no cached
\* credential of p and no cached instance of p under any credential value,
\* the credential-less one included, so that the next resolve of p with any
\* credential constructs a new object.
C2_ClearDropsEveryInstance ==
    [][\A p \in ProviderIds :
          clear_api_key_cache(p) =>
            /\ p \notin DOMAIN apiKeys'
            /\ InstanceKeysOf(instCache', p) = {}
            /\ \A k \in Credentials :
                 LET g == GetProviderInstance(providers', classCache', instCache',
                                              nextId', p, k, TRUE, TRUE)
                 IN  g.raised = "none" => g.constructed]_vars

\* C3, as the claim states it: a step cache_api_key(p, k2) taken when the cached
\* credential of p is a credential k1 # k2 leaves no instance of p built with
\* k1 in the instance cache; and no step changes the credential of an object
\* that stays cached.
C3_CredentialChangeEvicts ==
    [][/\ \A p \in ProviderIds, k2 \in Credentials :
            (/\ cache_api_key(p, k2)
             /\ p \in DOMAIN apiKeys
             /\ Truthy(apiKeys[p])
             /\ apiKeys[p] # k2)
              => \A key \in InstanceKeysOf(instCache', p) :
                    instCache'[key].api_key # apiKeys[p]
       /\ \A key \in DOMAIN instCache \cap DOMAIN instCache' :
            instCache'[key].id = instCache[key].id
              => instCache'[key].api_key = instCache[key].api_key]_vars

\* C5: in every state and for every provider id, known or unknown, every
\* credential and every fate of the import and the constructor, cache_api_key
\* returns without raising, get_cached_api_key(p) then returns k, and when an
\* adapter was constructed it is cached under the key of (p, k), is an adapter
\* of p and holds the credential k.
C5_CacheApiKeyNeverRaises ==
    \A p \in ProviderIds, k \in Credentials, e \in Env :
        LET c == CacheApiKey(providers, classCache, instCache, nextId, apiKeys,
                             p, k, e.loadOk, e.initOk)
        IN  /\ ~c.raised
            /\ GetCachedApiKey(c.apiKeys, p) = k
            /\ \A q \in DOMAIN apiKeys \ {p} :
                 GetCachedApiKey(c.apiKeys, q) = apiKeys[q]
            /\ (p \in providers /\ Truthy(k) /\ e.initOk
                  /\ (p \in classCache \/ e.loadOk))
                 => CacheKey(p, k) \in DOMAIN c.instCache
            /\ c.constructed =>
                 /\ CacheKey(p, k) \in DOMAIN c.instCache
                 /\ c.instCache[CacheKey(p, k)].provider_id = p
                 /\ RequiresApiKey(p) => c.instCache[CacheKey(p, k)].api_key = k

\* C5 witness: a credential is cached whose warming failed
C5_CachedWithoutInstance ==
    \E p \in DOMAIN apiKeys :
        /\ Truthy(apiKeys[p])
        /\ CacheKey(p, apiKeys[p]) \notin DOMAIN instCache

\* C6: the step that ends the construction of the manager leaves every loaded
\* provider whose warming did not fail warmed, whatever happened to the
\* others: one that requires no credential has its class cached and an
\* instance of its own cached under its id; one that requires a credential
\* has its class cached; and no provider that requires a credential has an
\* instance.
C6_WarmUpPostState ==
    [][WarmUpProviders =>
         \A p \in providers' :
            /\ (~RequiresApiKey(p) /\ p \notin warmFailed')
                 => /\ p \in classCache'
                    /\ p \in InstanceKeysOf(instCache', p)
            /\ RequiresApiKey(p)
                 => /\ InstanceKeysOf(instCache', p) = {}
                    /\ p \notin warmFailed' => p \in classCache'
            /\ p \in warmFailed' => InstanceKeysOf(instCache', p) = {}]_vars

\* C6 witness: construction has finished, the warming of one provider failed
\* and another provider is warmed
C6_WarmedDespiteFailure ==
    /\ phase = "warmed"
    /\ apiKeys = EmptyDict
    /\ \E p \in warmFailed, q \in providers \ warmFailed :
         /\ ~RequiresApiKey(q)
         /\ q \in InstanceKeysOf(instCache, q)
         /\ nextId = 2

\* C7, as the claim states it: a resolve of an unknown provider id fails with
\* the unknown-provider error, and every failed resolve leaves the instance
\* cache and the class cache as they were.
C7_FailureChangesNothing ==
    \A p \in ProviderIds, k \in Credentials, e \in Env :
        LET g == GetProviderInstance(providers, classCache, instCache, nextId,
                                     p, k, e.loadOk, e.initOk)
        IN  Constructed =>
              /\ p \notin providers => g.raised = "ValueError"
              /\ g.raised # "none" => /\ g.instCache = instCache
                                      /\ g.classCache = classCache

\* C7, amended: a resolve of an unknown provider id fails with the
\* unknown-provider error and leaves the instance cache and the class cache
\* as they were; a resolve that fails for a known provider leaves the instance
\* cache as it was and adds at most the class of that provider to the class
\* cache; no resolve, failed or not, changes the credential cache.
C7_FailedResolveFrame ==
    /\ [](\A p \in ProviderIds, k \in Credentials, e \in Env :
            LET g == GetProviderInstance(providers, classCache, instCache, nextId,
                                         p, k, e.loadOk, e.initOk)
            IN  /\ p \notin providers <=> g.raised = "ValueError"
                /\ g.raised = "ValueError" => /\ g.instCache = instCache
                                              /\ g.classCache = classCache
                                              /\ g.nextId = nextId
                /\ g.raised = "Exception" => /\ g.instCache = instCache
                                             /\ g.nextId = nextId
                                             /\ classCache \subseteq g.classCache
                                             /\ g.classCache \subseteq classCache \cup {p})
    /\ [][(\E p \in ProviderIds, k \in Credentials : get_provider_instance(p, k))
            => apiKeys' = apiKeys]_vars

\* C7 witness: a resolve loaded the class of a provider that warm-up had failed
\* to load, and its constructor failed: no object was ever constructed
C7_ClassLoadedConstructionFailed ==
    /\ nextId = 1
    /\ \E p \in warmFailed : RequiresApiKey(p) /\ p \in classCache

---------------------------------------------------------------------------
(* The web application: startup and the handlers that touch the registry *)

AllOk == [p \in ProviderUniverse |-> [loadOk |-> TRUE, initOk |-> TRUE]]

\* the registry as a record, env[p] the fate of p's import and constructor
RegistryState(env) ==
    [providers |-> providers, classCache |-> classCache, instCache |-> instCache,
     nextId |-> nextId, apiKeys |-> apiKeys, env |-> env]

\* provider_manager.cache_api_key(p, k) on the record
CacheApiKeyIn(st, p, k) ==
    LET c == CacheApiKey(st.providers, st.classCache, st.instCache, st.nextId,
                         st.apiKeys, p, k, st.env[p].loadOk, st.env[p].initOk)
    IN  [st EXCEPT !.classCache = c.classCache, !.instCache = c.instCache,
                   !.nextId = c.nextId, !.apiKeys = c.apiKeys]

\* the loop of startup_event / ensure_api_keys_cached over all_api_keys
RECURSIVE CacheAllFrom(_, _, _, _)
CacheAllFrom(order, i, st, keys) ==
    IF i > Len(order) THEN st
    ELSE LET p == order[i]
         IN  IF p \in DOMAIN keys /\ Truthy(p) /\ Truthy(keys[p])
             THEN CacheAllFrom(order, i + 1, CacheApiKeyIn(st, p, keys[p]), keys)
             ELSE CacheAllFrom(order, i + 1, st, keys)

\* startup_event: db.get_all_api_keys() into the credential cache
startup_event ==
    /\ phase = "warmed"
    /\ \E env \in [ProviderUniverse -> Env] :
         LET st == CacheAllFrom(ProviderOrder, 1, RegistryState(env), dbKeys)
         IN  /\ st.nextId <= MaxInstances + 1
             /\ classCache' = st.classCache
             /\ instCache' = st.instCache
             /\ nextId' = st.nextId
             /\ apiKeys' = st.apiKeys
    /\ phase' = "serving"
    /\ UNCHANGED <<pool, construction, temp_file, threads, providers, descriptorVars, probe, dbKeys, warmFailed, batch, response>>

\* a request handler can run: the process serves and no batch holds the event loop
Serving == phase = "serving" /\ batch.pc = "idle"

\* the credential lookup of the handlers: cached, else the database, then cached
RECURSIVE FallbackFrom(_, _, _, _)
FallbackFrom(order, i, st, keys) ==
    IF i > Len(order) THEN st
    ELSE LET p == order[i]
             db_key == DictGet(keys, p)
         IN  IF p \in st.providers /\ ~Truthy(GetCachedApiKey(st.apiKeys, p))
                /\ Truthy(db_key)
             THEN FallbackFrom(order, i + 1, CacheApiKeyIn(st, p, db_key), keys)
             ELSE FallbackFrom(order, i + 1, st, keys)

\* GET /api/models (as GET /api/providers): the lookup for every loaded provider
get_all_models ==
    /\ Serving
    /\ \E env \in [ProviderUniverse -> Env] :
         LET st == FallbackFrom(ProviderOrder, 1, RegistryState(env), dbKeys)
         IN  /\ st.nextId <= MaxInstances + 1
             /\ classCache' = st.classCache
             /\ instCache' = st.instCache
             /\ nextId' = st.nextId
             /\ apiKeys' = st.apiKeys
    /\ response' = NoResponse
    /\ UNCHANGED <<pool, construction, temp_file, threads, phase, providers, descriptorVars, probe, dbKeys, warmFailed, batch>>

\* POST /api/admin/api-keys/{provider_id}/test: an adapter for the stored credential
test_api_key(p) ==
    /\ Serving
    /\ Truthy(DictGet(dbKeys, p))
    /\ \E loadOk \in BOOLEAN, initOk \in BOOLEAN :
         LET g == GetProviderInstance(providers, classCache, instCache, nextId,
                                      p, DictGet(dbKeys, p), loadOk, initOk)
         IN  /\ g.nextId <= MaxInstances + 1
             /\ classCache' = g.classCache
             /\ instCache' = g.instCache
             /\ nextId' = g.nextId
    /\ response' = NoResponse
    /\ UNCHANGED <<pool, construction, temp_file, threads, phase, providers, descriptorVars, probe, apiKeys, dbKeys, warmFailed, batch>>

\* POST /api/admin/api-keys/{provider_id}: db.save_api_key only
save_api_key(p, k) ==
    /\ Serving
    /\ Truthy(k)
    /\ p \in providers
    /\ dbKeys' = DictSet(dbKeys, p, k)
    /\ response' = NoResponse
    /\ UNCHANGED <<pool, construction, temp_file, threads, phase, providers, descriptorVars, probe, classCache, instCache, apiKeys, nextId,
                   warmFailed, batch>>

\* DELETE /api/admin/api-keys/{provider_id}: DELETE FROM api_keys only
delete_api_key(p) ==
    /\ Serving
    /\ dbKeys' = DictPop(dbKeys, p)
    /\ response' = NoResponse
    /\ UNCHANGED <<pool, construction, temp_file, threads, phase, providers, descriptorVars, probe, classCache, instCache, apiKeys, nextId,
                   warmFailed, batch>>

---------------------------------------------------------------------------
(* test_multiple_models *)

Range(s) == {s[i] : i \in 1..Len(s)}

\* f"{provider_id}-{model['id']}"
ModelInfoId(p, m) == p \o <<"-">> \o m

ModelInfo(p, m) ==
    [id |-> ModelInfoId(p, m.id), provider_id |-> p, model_id |-> m.id,
     requires_api_key |-> RequiresApiKey(p)]

\* get_models_for_language over the providers order[i..]
RECURSIVE ModelsForLanguageFrom(_, _, _, _)
ModelsForLanguageFrom(order, i, provs, language) ==
    IF i > Len(order) THEN <<>>
    ELSE LET p == order[i]
             ms == SelectSeq(ModelsOf(p), LAMBDA m : language \in m.supported_languages)
             infos == [j \in 1..Len(ms) |-> ModelInfo(p, ms[j])]
         IN  (IF p \in provs THEN infos ELSE <<>>)
             \o ModelsForLanguageFrom(order, i + 1, provs, language)

GetModelsForLanguage(provs, language) ==
    ModelsForLanguageFrom(ProviderOrder, 1, provs, language)

\* ensure_api_keys_cached: populate the credential cache only when it is empty
EnsureApiKeysCached(st, keys) ==
    IF DOMAIN st.apiKeys = {} THEN CacheAllFrom(ProviderOrder, 1, st, keys) ELSE st

\* IsSelected as if the credential test of line 526 were missing
IsSelectedById(model, ids, ak) == model.id \in Range(ids)

\* the filter of test_multiple_models: selected, and credential cached if required
IsSelected(model, ids, ak) ==
    /\ model.id \in Range(ids)
    /\ (~model.requires_api_key \/ Truthy(GetCachedApiKey(ak, model.provider_id)))

SelectedModels(available, ids, ak) ==
    LET sel == SelectSeq(available, LAMBDA m : IsSelected(m, ids, ak))
    IN  [j \in 1..Len(sel) |->
            [provider_id |-> sel[j].provider_id, model_id |-> sel[j].model_id,
             api_key |-> GetCachedApiKey(ak, sel[j].provider_id)]]

\* the (provider, model) pairs a request can name, and their model ids
SelectablePairs == {<<PA, <<"m1">>>>, <<PAB, <<"m1">>>>, <<PZ, <<"m1">>>>}

SelectableIds == {ModelInfoId(pr[1], pr[2]) : pr \in SelectablePairs}

\* the parsed model_ids form field
Requests == UNION {[1..n -> SelectableIds] : n \in 0..MaxSelected}

NoResult == [provider_id |-> None, model_id |-> None, success |-> FALSE,
             processing_time |-> 0, confidence |-> 0, error |-> "none"]

Queued == [pc |-> "queued", instance |-> NoInstance, result |-> NoResult]

\* the fates of the imports and constructors that ensure_api_keys_cached may run
EnvsFor(ak, ids) ==
    IF Len(ids) > 0 /\ DOMAIN ak = {} THEN [ProviderUniverse -> Env] ELSE {AllOk}

\* Rejected as if the handler did not validate the selection
NeverRejected(ids, selected) == FALSE

\* the two HTTPException(400) of test_multiple_models: no model id was sent,
\* or no selected model passed the filter
Rejected(ids, selected) == Len(ids) = 0 \/ Len(selected) = 0

\* test_multiple_models up to the submission of the tasks to the thread pool
BatchStart(language, ids) ==
    /\ Serving
    /\ \E env \in EnvsFor(apiKeys, ids) :
         LET available == GetModelsForLanguage(providers, language)
             st == IF Len(ids) = 0 THEN RegistryState(env)
                   ELSE EnsureApiKeysCached(RegistryState(env), dbKeys)
             selected == SelectedModels(available, ids, st.apiKeys)
         IN  /\ st.nextId <= MaxInstances + 1
             /\ classCache' = st.classCache
             /\ instCache' = st.instCache
             /\ nextId' = st.nextId
             /\ apiKeys' = st.apiKeys
             /\ IF Rejected(ids, selected)
                THEN /\ batch' = Idle
                     /\ response' = [NoResponse EXCEPT !.status = 400,
                                        !.language = language,
                                        !.selected_model_ids = ids]
                     /\ temp_file' = temp_file
                ELSE /\ batch' = [pc |-> "running", language |-> language,
                                  selected_model_ids |-> ids, tasks |-> selected,
                                  workers |-> [j \in 1..Len(selected) |-> Queued],
                                  results |-> <<>>,
                                  scheduled |-> <<>>, sync_writes |-> <<>>]
                     /\ response' = NoResponse
                     /\ temp_file' = TRUE
    /\ UNCHANGED <<pool, construction, threads, phase, providers, descriptorVars, probe, dbKeys, warmFailed>>

\* processing_time of a successful and of a failed vendor call, confidence
OkTimes == {1, 3}
FailTime == 2
OkConfidence == 85

\* test_single_model, first half: the worker resolves its adapter
WorkerResolve(i) ==
    /\ batch.pc = "running"
    /\ i \in 1..Len(batch.workers)
    /\ batch.workers[i].pc = "queued"
    /\ \E loadOk \in BOOLEAN, initOk \in BOOLEAN :
         LET t == batch.tasks[i]
             g == GetProviderInstance(providers, classCache, instCache, nextId,
                                      t.provider_id, t.api_key, loadOk, initOk)
         IN  /\ g.nextId <= MaxInstances + 1
             /\ classCache' = g.classCache
             /\ instCache' = g.instCache
             /\ nextId' = g.nextId
             /\ batch' = [batch EXCEPT !.workers[i] =
                    IF g.raised = "none"
                    THEN [pc |-> "resolved", instance |-> g.instance, result |-> NoResult]
                    ELSE [pc |-> "done", instance |-> NoInstance,
                          result |-> [provider_id |-> t.provider_id,
                                      model_id |-> t.model_id, success |-> FALSE,
                                      processing_time |-> 0, confidence |-> 0,
                                      error |-> "instantiate"]]]
    /\ UNCHANGED <<pool, construction, temp_file, threads, phase, providers, descriptorVars, probe, apiKeys, dbKeys, warmFailed, response>>

\* what transcribe_audio of the adapter `inst` can return for task t
AdapterResults(inst, t) ==
    LET base == [provider_id |-> t.provider_id, model_id |-> t.model_id,
                 success |-> FALSE, processing_time |-> 0, confidence |-> 0,
                 error |-> "none"]
    IN  IF RequiresApiKey(inst.provider_id) /\ ~Truthy(inst.api_key)
        THEN {[base EXCEPT !.error = "API key not provided"]}
        ELSE {[base EXCEPT !.success = TRUE, !.processing_time = pt,
                           !.confidence = OkConfidence] : pt \in OkTimes}
             \cup {[base EXCEPT !.processing_time = FailTime, !.error = "vendor"],
                   [base EXCEPT !.error = "exception"]}

\* WorkerCall as if the pool cancelled the pending calls once a task failed
WorkerCallUnlessSiblingFailed(i) ==
    /\ batch.pc = "running"
    /\ i \in 1..Len(batch.workers)
    /\ batch.workers[i].pc = "resolved"
    /\ \A j \in 1..Len(batch.workers) :
         batch.workers[j].pc \in {"done", "collected"} => batch.workers[j].result.success
    /\ \E r \in AdapterResults(batch.workers[i].instance, batch.tasks[i]) :
         batch' = [batch EXCEPT !.workers[i].pc = "done", !.workers[i].result = r]
    /\ UNCHANGED <<pool, construction, temp_file, threads, phase, providers, descriptorVars, probe, classCache, instCache, apiKeys, dbKeys,
                   nextId, warmFailed, response>>

\* test_single_model, second half: the vendor call returns
WorkerCall(i) ==
    /\ batch.pc = "running"
    /\ i \in 1..Len(batch.workers)
    /\ batch.workers[i].pc = "resolved"
    /\ \E r \in AdapterResults(batch.workers[i].instance, batch.tasks[i]) :
         batch' = [batch EXCEPT !.workers[i].pc = "done", !.workers[i].result = r]
    /\ UNCHANGED <<pool, construction, temp_file, threads, phase, providers, descriptorVars, probe, classCache, instCache, apiKeys, dbKeys,
                   nextId, warmFailed, response>>

\* the vendor call of worker i never returns
WorkerHang(i) ==
    /\ batch.pc = "running"
    /\ i \in 1..Len(batch.workers)
    /\ batch.workers[i].pc = "resolved"
    /\ batch' = [batch EXCEPT !.workers[i].pc = "hung"]
    /\ UNCHANGED <<pool, construction, temp_file, threads, phase, providers, descriptorVars, probe, classCache, instCache, apiKeys, dbKeys,
                   nextId, warmFailed, response>>

\* a write of a result or of the session to the durable store ("db") or to
\* the search index ("es")
SinkWrite(backend, kind, r) ==
    [backend |-> backend, kind |-> kind, provider_id |-> r.provider_id,
     model_id |-> r.model_id, success |-> r.success]

\* the background tasks the loop body creates for the result r, in order
ScheduledFor(r) ==
    IF r.success
    THEN <<SinkWrite("db", "result", r), SinkWrite("es", "result", r)>>
    ELSE <<SinkWrite("es", "result", r)>>

\* error_result of the except clause of the loop
ErrorResult ==
    [provider_id |-> None, model_id |-> None, success |-> FALSE,
     processing_time |-> 0, confidence |-> 0, error |-> "Future execution failed"]

\* es_test_result of the except clause, indexed by a direct call
ErrorIndexWrite ==
    [backend |-> "es", kind |-> "result", provider_id |-> <<"unknown">>,
     model_id |-> <<"unknown">>, success |-> FALSE]

\* one turn of the as_completed loop: a finished future is collected; with
\* fault = n > 0 the n-th create_background_task of the turn raises, and the
\* except clause runs
Collect(i) ==
    /\ batch.pc = "running"
    /\ i \in 1..Len(batch.workers)
    /\ batch.workers[i].pc = "done"
    /\ LET r == batch.workers[i].result
       IN  \E fault \in 0..Len(ScheduledFor(r)) :
             batch' = [batch EXCEPT
               !.workers[i].pc = "collected",
               !.results = IF fault = 0 THEN Append(@, r)
                           ELSE Append(Append(@, r), ErrorResult),
               !.scheduled = @ \o SubSeq(ScheduledFor(r), 1,
                                 IF fault = 0 THEN Len(ScheduledFor(r))
                                 ELSE fault - 1),
               !.sync_writes = IF fault = 0 THEN @ ELSE Append(@, ErrorIndexWrite)]
    /\ UNCHANGED <<pool, construction, temp_file, threads, phase, providers, descriptorVars, probe, classCache, instCache, apiKeys, dbKeys,
                   nextId, warmFailed, response>>

RECURSIVE SumProcessingTime(_)
SumProcessingTime(rs) ==
    IF rs = <<>> THEN 0 ELSE Head(rs).processing_time + SumProcessingTime(Tail(rs))

RECURSIVE SumConfidence(_)
SumConfidence(rs) ==
    IF rs = <<>> THEN 0 ELSE Head(rs).confidence + SumConfidence(Tail(rs))

\* successful_results = [r for r in results if r.get('success')]
SuccessfulResults(results) == SelectSeq(results, LAMBDA r : r.success)

\* failed_results = [r for r in results if not r.get('success')]
FailedResults(results) == SelectSeq(results, LAMBDA r : ~r.success)

\* SessionData as if the means were taken over all results
SessionDataOverAllResults(results, tasks) ==
    [successful_models |-> Len(SuccessfulResults(results)),
     failed_models |-> Len(FailedResults(results)),
     total_models |-> Len(tasks),
     total_duration |-> SumProcessingTime(results),
     avg_processing_time |-> [num |-> SumProcessingTime(results),
                              den |-> Max(1, Len(results))],
     avg_confidence |-> [num |-> SumConfidence(results),
                         den |-> Max(1, Len(results))]]

\* SessionData as if the means were those of the result that completed first
SessionDataOfFirstCompleted(results, tasks) ==
    LET successful_results == SuccessfulResults(results)
        failed_results == FailedResults(results)
    IN  [successful_models |-> Len(successful_results),
         failed_models |-> Len(failed_results),
         total_models |-> Len(tasks),
         total_duration |-> SumProcessingTime(results),
         avg_processing_time |->
             [num |-> IF successful_results = <<>> THEN 0
                      ELSE Head(successful_results).processing_time,
              den |-> 1],
         avg_confidence |->
             [num |-> IF successful_results = <<>> THEN 0
                      ELSE Head(successful_results).confidence,
              den |-> 1]]

\* session_data; a mean is the fraction num / den
SessionData(results, tasks) ==
    LET successful_results == SuccessfulResults(results)
        failed_results == FailedResults(results)
    IN  [successful_models |-> Len(successful_results),
         failed_models |-> Len(failed_results),
         total_models |-> Len(tasks),
         total_duration |-> SumProcessingTime(results),
         avg_processing_time |-> [num |-> SumProcessingTime(successful_results),
                                  den |-> Max(1, Len(successful_results))],
         avg_confidence |-> [num |-> SumConfidence(successful_results),
                             den |-> Max(1, Len(successful_results))]]

\* BatchFinish as if the handler returned without the finally clause
BatchFinishKeepingFile ==
    /\ batch.pc = "running"
    /\ \A i \in 1..Len(batch.workers) : batch.workers[i].pc = "collected"
    /\ LET session_write == [backend |-> "es", kind |-> "session",
                             provider_id |-> None, model_id |-> None,
                             success |-> TRUE]
           scheduled == Append(batch.scheduled, session_write)
       IN  response' = [status |-> 200, language |-> batch.language,
                        selected_model_ids |-> batch.selected_model_ids,
                        results |-> batch.results,
                        session |-> SessionData(batch.results, batch.tasks),
                        scheduled |-> scheduled,
                        sync_writes |-> batch.sync_writes,
                        outcome |-> [j \in 1..Len(scheduled) |-> "pending"]]
    /\ batch' = Idle
    /\ UNCHANGED <<pool, construction, temp_file, threads, phase, providers,
                   descriptorVars, probe, classCache, instCache, apiKeys, dbKeys,
                   nextId, warmFailed>>

\* test_multiple_models after the thread pool has shut down: the session, the
\* return and the finally clause that unlinks the temporary file
BatchFinish ==
    /\ batch.pc = "running"
    /\ \A i \in 1..Len(batch.workers) : batch.workers[i].pc = "collected"
    /\ LET session_write == [backend |-> "es", kind |-> "session",
                             provider_id |-> None, model_id |-> None,
                             success |-> TRUE]
           scheduled == Append(batch.scheduled, session_write)
       IN  response' = [status |-> 200, language |-> batch.language,
                        selected_model_ids |-> batch.selected_model_ids,
                        results |-> batch.results,
                        session |-> SessionData(batch.results, batch.tasks),
                        scheduled |-> scheduled,
                        sync_writes |-> batch.sync_writes,
                        outcome |-> [j \in 1..Len(scheduled) |-> "pending"]]
    /\ batch' = Idle
    /\ temp_file' = FALSE
    /\ UNCHANGED <<pool, construction, threads, phase, providers, descriptorVars, probe, classCache, instCache, apiKeys, dbKeys,
                   nextId, warmFailed>>

\* test_multiple_models raises after the temporary file was created: before
\* a task is submitted (reading or writing the upload fails), or after the
\* with block of the executor has waited for every worker; the finally clause
\* unlinks the file
BatchAbort ==
    /\ batch.pc = "running"
    /\ \/ \A i \in 1..Len(batch.workers) : batch.workers[i].pc = "queued"
       \/ \A i \in 1..Len(batch.workers) :
            batch.workers[i].pc \in {"done", "collected"}
    /\ response' = [NoResponse EXCEPT !.status = 500,
                       !.language = batch.language,
                       !.selected_model_ids = batch.selected_model_ids]
    /\ batch' = Idle
    /\ temp_file' = FALSE
    /\ UNCHANGED <<pool, construction, threads, phase, providers, descriptorVars,
                   probe, classCache, instCache, apiKeys, dbKeys, nextId,
                   warmFailed>>

\* how the sink function of a background task ends: it returns True, returns
\* False (backend unreachable or write refused), or raises
SinkOutcomes == {"ok", "failed", "raised"}

\* RunBackgroundTask as if the two writes of a result were one task that gives
\* up after the first failed write
RunBackgroundTaskOfCoupledWrites(j) ==
    /\ Serving
    /\ response.status = 200
    /\ j \in 1..Len(response.scheduled)
    /\ response.outcome[j] = "pending"
    /\ \A i \in 1..Len(response.scheduled) :
         ( /\ i # j
           /\ response.scheduled[i].kind = "result"
           /\ response.scheduled[i].provider_id = response.scheduled[j].provider_id
           /\ response.scheduled[i].model_id = response.scheduled[j].model_id )
           => response.outcome[i] \in {"pending", "ok"}
    /\ \E o \in SinkOutcomes : response' = [response EXCEPT !.outcome[j] = o]
    /\ UNCHANGED <<pool, construction, temp_file, threads, phase, providers, descriptorVars, probe, classCache, instCache, apiKeys, dbKeys,
                   nextId, warmFailed, batch>>

\* one background task created by create_background_task: async_save_test_result,
\* async_index_test_result or async_index_test_session runs its sink function
\* in the executor and swallows whatever it raises
RunBackgroundTask(j) ==
    /\ Serving
    /\ response.status = 200
    /\ j \in 1..Len(response.scheduled)
    /\ response.outcome[j] = "pending"
    /\ \E o \in SinkOutcomes : response' = [response EXCEPT !.outcome[j] = o]
    /\ UNCHANGED <<pool, construction, temp_file, threads, phase, providers, descriptorVars, probe, classCache, instCache, apiKeys, dbKeys,
                   nextId, warmFailed, batch>>

---------------------------------------------------------------------------
(* Connectivity probes *)

\* the adapter classes, by what their test_connection does; the TTS adapters
\* define no test_connection
AdapterClasses == {"OpenAIASR", "GoogleASR", "SarvASR", "AnthropicAI",
                   "OpenAIAI", "OpenAITTS"}

HasTestConnection(cls) == cls # "OpenAITTS"

\* what the request of a probe meets: an answer with a status (the body of a
\* 200 well formed or not) or a transport exception
NetOutcomes == {"200", "200_malformed", "400", "403", "500", "exception"}

Answer(net) ==
    IF net = "exception" THEN "none"
    ELSE IF net = "200_malformed" THEN "200"
    ELSE net

\* the result of a probe that failed with or without a request
ProbeFailed(called, answer) ==
    [raised |-> FALSE, success |-> FALSE, called |-> called, answer |-> answer]

ProbeSucceeded(called, answer) ==
    [raised |-> FALSE, success |-> TRUE, called |-> called, answer |-> answer]

\* instance.test_connection() of an adapter of class cls constructed with the
\* credential k
TestConnection(cls, k, net) ==
    IF ~HasTestConnection(cls)
    THEN [raised |-> TRUE, success |-> FALSE, called |-> FALSE, answer |-> "none"]
    ELSE IF cls \in {"OpenAIASR", "GoogleASR"} /\ ~Truthy(k)
    THEN ProbeFailed(FALSE, "none")
    ELSE IF net = "exception"
    THEN ProbeFailed(TRUE, "none")
    ELSE IF cls = "GoogleASR"
    THEN IF Answer(net) \in {"200", "400"}
         THEN ProbeSucceeded(TRUE, Answer(net))
         ELSE ProbeFailed(TRUE, Answer(net))
    ELSE IF cls \in {"SarvASR", "OpenAIAI"}
    THEN IF net = "200"
         THEN ProbeSucceeded(TRUE, Answer(net))
         ELSE ProbeFailed(TRUE, Answer(net))
    ELSE IF Answer(net) = "200"
         THEN ProbeSucceeded(TRUE, Answer(net))
         ELSE ProbeFailed(TRUE, Answer(net))

\* TestProviderConnection as if the call were not enclosed in try/except
TestProviderConnectionPropagating(provs, cc, ic, nid, p, k, loadOk, initOk, cls, net) ==
    LET g == GetProviderInstance(provs, cc, ic, nid, p, k, loadOk, initOk)
        t == TestConnection(cls, g.instance.api_key, net)
    IN  [classCache |-> g.classCache, instCache |-> g.instCache, nextId |-> g.nextId,
         result |-> IF g.raised # "none"
                    THEN [raised |-> TRUE, success |-> FALSE, called |-> FALSE,
                          answer |-> "none"]
                    ELSE t]

\* ProviderManager.test_provider_connection on the registry state; cls is the
\* adapter class the provider's directory holds
TestProviderConnection(provs, cc, ic, nid, p, k, loadOk, initOk, cls, net) ==
    LET g == GetProviderInstance(provs, cc, ic, nid, p, k, loadOk, initOk)
        t == TestConnection(cls, g.instance.api_key, net)
    IN  [classCache |-> g.classCache, instCache |-> g.instCache, nextId |-> g.nextId,
         result |-> IF g.raised # "none" THEN ProbeFailed(FALSE, "none")
                    ELSE IF t.raised THEN ProbeFailed(FALSE, "none")
                    ELSE t]

\* UniversalProviderFactory.test_provider_connection; created says whether
\* create_provider_instance returned an instance
FactoryTestProviderConnection(created, cls, k, net) ==
    IF ~created THEN ProbeFailed(FALSE, "none")
    ELSE IF HasTestConnection(cls) THEN TestConnection(cls, k, net)
    ELSE ProbeSucceeded(FALSE, "none")

\* a caller probes an adapter it holds
test_connection ==
    /\ probe.pc = "ready"
    /\ probe.via = "adapter"
    /\ probe' = [probe EXCEPT !.pc = "returned",
                    !.result = TestConnection(probe.cls, probe.api_key, probe.net)]
    /\ UNCHANGED <<pool, construction, temp_file, threads, phase, providers, descriptorVars, classCache, instCache,
                   apiKeys, dbKeys, nextId, warmFailed, batch, response>>

test_provider_connection ==
    /\ probe.pc = "ready"
    /\ probe.via = "manager"
    /\ Constructed
    /\ \E loadOk \in BOOLEAN, initOk \in BOOLEAN :
         LET c == TestProviderConnection(providers, classCache, instCache, nextId,
                     probe.provider_id, probe.api_key, loadOk, initOk,
                     probe.cls, probe.net)
         IN  /\ c.nextId <= MaxInstances + 1
             /\ classCache' = c.classCache
             /\ instCache' = c.instCache
             /\ nextId' = c.nextId
             /\ probe' = [probe EXCEPT !.pc = "returned", !.result = c.result]
    /\ UNCHANGED <<pool, construction, temp_file, threads, phase, providers, descriptorVars, apiKeys, dbKeys,
                   warmFailed, batch, response>>

factory_test_provider_connection ==
    /\ probe.pc = "ready"
    /\ probe.via = "factory"
    /\ \E created \in BOOLEAN :
         probe' = [probe EXCEPT !.pc = "returned",
                     !.result = FactoryTestProviderConnection(created, probe.cls,
                                    probe.api_key, probe.net)]
    /\ UNCHANGED <<pool, construction, temp_file, threads, phase, providers, descriptorVars, classCache, instCache,
                   apiKeys, dbKeys, nextId, warmFailed, batch, response>>

---------------------------------------------------------------------------
(* Construction of the adapters *)

\* the adapter classes under providers/ASR, providers/AI and providers/TTS
ConstructibleClasses ==
    AdapterClasses \cup {"ElevenLabsASR", "FireworksASR", "GroqAI",
                         "ElevenLabsTTS", "GoogleTTS"}

\* a service-account key file as a credential, and a text that starts like one
\* but is not JSON
ServiceAccountJson == <<"{", "client_email", "private_key", "}">>
BrokenJson == <<"{">>

\* the credential values a constructor can be given
ConstructorCredentials == {None, EmptyStr, K1, ServiceAccountJson, BrokenJson}

TokenUrl == "https://oauth2.googleapis.com/token"

\* json.loads: whether the text parses
JsonLoads(k) == k = ServiceAccountJson

\* GoogleTTS._get_access_token_from_service_account: signs an assertion and
\* posts it to the token endpoint; every failure ends in None
GetAccessTokenFromServiceAccount(net) ==
    [access_token |-> IF net = "200" THEN <<"access_token">> ELSE None,
     requests |-> <<TokenUrl>>]

\* GoogleTTS._initialize_auth
InitializeAuth(k, net) ==
    IF ~Truthy(k) THEN [access_token |-> None, requests |-> <<>>]
    ELSE IF StartsWith(k, <<"{">>)
         THEN IF JsonLoads(k) THEN GetAccessTokenFromServiceAccount(net)
              ELSE [access_token |-> None, requests |-> <<>>]
    ELSE [access_token |-> k, requests |-> <<>>]

\* cls.__init__(config, api_key): the access token the adapter holds
\* afterwards and the requests the constructor sent
Construct(cls, k, net) ==
    IF cls = "GoogleTTS" THEN InitializeAuth(k, net)
    ELSE [access_token |-> None, requests |-> <<>>]

\* a caller constructs an adapter
construct ==
    /\ construction.pc = "ready"
    /\ LET c == Construct(construction.cls, construction.api_key, construction.net)
       IN  construction' = [construction EXCEPT !.pc = "constructed",
                               !.access_token = c.access_token,
                               !.requests = c.requests]
    /\ UNCHANGED <<pool, temp_file, threads, phase, providers, descriptorVars, probe,
                   classCache, instCache, apiKeys, dbKeys, nextId, warmFailed,
                   batch, response>>

---------------------------------------------------------------------------
(* The thread pool of a batch, by numbers of tasks *)

\* max_workers of the executor for a batch of n tasks
MaxWorkers(n) == n

\* the with statement is entered and every task is submitted
executor_submit(n) ==
    /\ pool.pc \in {"none", "shutdown"}
    /\ pool' = [pc |-> "open", n |-> n, max_workers |-> MaxWorkers(n),
                running |-> 0, finished |-> 0]
    /\ UNCHANGED <<construction, temp_file, threads, phase, providers,
                   descriptorVars, probe, classCache, instCache, apiKeys, dbKeys,
                   nextId, warmFailed, batch, response>>

\* a worker thread of the pool takes a submitted task
task_start ==
    /\ pool.pc = "open"
    /\ pool.running < pool.max_workers
    /\ pool.running + pool.finished < pool.n
    /\ pool' = [pool EXCEPT !.running = @ + 1]
    /\ UNCHANGED <<construction, temp_file, threads, phase, providers,
                   descriptorVars, probe, classCache, instCache, apiKeys, dbKeys,
                   nextId, warmFailed, batch, response>>

\* test_single_model returns in a worker thread
task_end ==
    /\ pool.pc = "open"
    /\ pool.running > 0
    /\ pool' = [pool EXCEPT !.running = @ - 1, !.finished = @ + 1]
    /\ UNCHANGED <<construction, temp_file, threads, phase, providers,
                   descriptorVars, probe, classCache, instCache, apiKeys, dbKeys,
                   nextId, warmFailed, batch, response>>

\* the with statement is left: every task has finished
executor_shutdown ==
    /\ pool.pc = "open"
    /\ pool.finished = pool.n
    /\ pool' = [pool EXCEPT !.pc = "shutdown"]
    /\ UNCHANGED <<construction, temp_file, threads, phase, providers,
                   descriptorVars, probe, classCache, instCache, apiKeys, dbKeys,
                   nextId, warmFailed, batch, response>>

---------------------------------------------------------------------------
(* get_provider_instance in concurrent threads, statement by statement *)

IdleThread == [pc |-> "idle", provider_id |-> None, api_key |-> None,
               instance |-> NoInstance, invalidated |-> FALSE]

\* the worker threads of a batch that call the ProviderManager
WorkerThreads == 1..2

\* get_provider_instance up to the class lookup: the membership test, the
\* cache key, the test of the instance cache and _load_provider_class
get_provider_instance_lookup(t, p, k) ==
    /\ Constructed
    /\ threads[t].pc = "idle"
    /\ \E loadOk \in BOOLEAN :
         LET call == [IdleThread EXCEPT !.provider_id = p, !.api_key = k]
             key == CacheKey(p, k)
             ld == IF p \in classCache
                   THEN [raised |-> FALSE, classCache |-> classCache]
                   ELSE LoadProviderClass(classCache, p, loadOk)
         IN  IF p \notin providers
             THEN /\ threads' = [threads EXCEPT ![t] = [call EXCEPT !.pc = "raised"]]
                  /\ classCache' = classCache
             ELSE IF key \in DOMAIN instCache
             THEN /\ threads' = [threads EXCEPT ![t] =
                                    [call EXCEPT !.pc = "returned",
                                                 !.instance = instCache[key]]]
                  /\ classCache' = classCache
             ELSE /\ threads' = [threads EXCEPT ![t] =
                                    [call EXCEPT !.pc = IF ld.raised THEN "raised"
                                                        ELSE "constructing"]]
                  /\ classCache' = ld.classCache
    /\ UNCHANGED <<pool, construction, temp_file, phase, providers,
                   descriptorVars, probe, instCache, apiKeys, dbKeys, nextId,
                   warmFailed, batch, response>>

\* get_provider_instance from the constructor call on: the instance is
\* constructed and stored under the cache key, or the constructor raises
get_provider_instance_construct(t) ==
    /\ threads[t].pc = "constructing"
    /\ \E initOk \in BOOLEAN :
         IF initOk
         THEN LET inst == NewInstance(nextId, threads[t].provider_id,
                                      threads[t].api_key)
                  key == CacheKey(threads[t].provider_id, threads[t].api_key)
              IN  /\ nextId <= MaxInstances
                  /\ instCache' = DictSet(instCache, key, inst)
                  /\ nextId' = nextId + 1
                  /\ threads' = [threads EXCEPT ![t].pc = "returned",
                                                ![t].instance = inst]
         ELSE /\ threads' = [threads EXCEPT ![t].pc = "raised"]
              /\ UNCHANGED <<instCache, nextId>>
    /\ UNCHANGED <<pool, construction, temp_file, phase, providers,
                   descriptorVars, probe, classCache, apiKeys, dbKeys, warmFailed,
                   batch, response>>

\* the worker is done with the adapter it received
get_provider_instance_done(t) ==
    /\ threads[t].pc \in {"returned", "raised"}
    /\ threads' = [threads EXCEPT ![t] = IdleThread]
    /\ UNCHANGED <<pool, construction, temp_file, phase, providers,
                   descriptorVars, probe, classCache, instCache, apiKeys, dbKeys,
                   nextId, warmFailed, batch, response>>

---------------------------------------------------------------------------
(* The descriptor store: load and reload *)

\* LoadProvidersStart as if a reload also emptied the instance cache
LoadProvidersStartClearingInstances ==
    /\ loader.pc = "idle"
    /\ providers' = {}
    /\ loader' = [loader EXCEPT !.pc = "loading", !.next = 1, !.config = EmptyDict]
    /\ instCache' = EmptyDict
    /\ UNCHANGED <<pool, construction, temp_file, threads, phase, classCache,
                   apiKeys, dbKeys, nextId, warmFailed, batch, response, disk,
                   probe>>

\* _load_providers, entered from __init__ or from reload_providers: the
\* statement self.providers = {}
LoadProvidersStart ==
    /\ loader.pc = "idle"
    /\ providers' = {}
    /\ loader' = [loader EXCEPT !.pc = "loading", !.next = 1, !.config = EmptyDict]
    /\ UNCHANGED <<pool, construction, temp_file, threads, phase, classCache, instCache, apiKeys, dbKeys, nextId,
                   warmFailed, batch, response, disk, probe>>

\* one iteration of the loop of _load_providers: _load_provider on the next
\* directory
LoadProviderStep ==
    /\ loader.pc = "loading"
    /\ loader.next <= Len(disk)
    /\ LET st == LoadProvider([providers |-> providers, config |-> loader.config],
                              disk[loader.next])
       IN  /\ providers' = st.providers
           /\ loader' = [loader EXCEPT !.next = @ + 1, !.config = st.config]
    /\ UNCHANGED <<pool, construction, temp_file, threads, phase, classCache, instCache, apiKeys, dbKeys, nextId,
                   warmFailed, batch, response, disk, probe>>

\* _load_providers returns
LoadProvidersEnd ==
    /\ loader.pc = "loading"
    /\ loader.next > Len(disk)
    /\ loader' = [loader EXCEPT !.pc = "idle", !.loaded = TRUE]
    /\ UNCHANGED <<pool, construction, temp_file, threads, phase, providers, classCache, instCache, apiKeys, dbKeys,
                   nextId, warmFailed, batch, response, disk, probe>>

\* the contents the providers directory takes between two reloads
ReloadDisks ==
    {InstalledDisk, <<Installed(PA)>>, <<Installed(PAB)>>, <<>>}

\* provider directories are added or removed while no load is under way
change_providers_dir(d) ==
    /\ loader.pc = "idle"
    /\ d # disk
    /\ disk' = d
    /\ UNCHANGED <<pool, construction, temp_file, threads, phase, providers,
                   loader, probe, classCache, instCache, apiKeys, dbKeys, nextId,
                   warmFailed, batch, response>>

---------------------------------------------------------------------------
(* Specifications *)

\* the providers an operator stores credentials for
KeyedProviders == {p \in ProviderUniverse : RequiresApiKey(p)}

\* a step of the running batch
BatchStep ==
    \/ \E i \in 1..MaxSelected : WorkerResolve(i)
    \/ \E i \in 1..MaxSelected : WorkerCall(i)
    \/ \E i \in 1..MaxSelected : WorkerHang(i)
    \/ \E i \in 1..MaxSelected : Collect(i)
    \/ BatchFinish

Next ==
    \/ WarmUpProviders
    \/ startup_event
    \/ get_all_models
    \/ \E p \in KeyedProviders : test_api_key(p)
    \/ \E p \in KeyedProviders, k \in StoredCredentials : save_api_key(p, k)
    \/ \E p \in KeyedProviders : delete_api_key(p)
    \/ \E language \in Languages, ids \in Requests : BatchStart(language, ids)
    \/ BatchStep

\* the web application: the registry as its handlers drive it
Spec == Init /\ [][Next]_vars

\* the most writes one batch hands to the sink: two per task and the session
MaxScheduled == 2 * MaxSelected + 1

SinkNext ==
    \/ startup_event
    \/ \E language \in Languages, ids \in Requests : BatchStart(language, ids)
    \/ BatchStep
    \/ \E j \in 1..MaxScheduled : RunBackgroundTask(j)

\* a process with one stored credential whose manager has been constructed,
\* every provider warmed up
SinkInit ==
    LET st == WarmUp(ProviderUniverse, {}, EmptyDict, 1,
                     [p \in ProviderUniverse |-> "ok"])
    IN  /\ phase = "warmed"
        /\ providers = ProviderUniverse
        /\ classCache = st.classCache
        /\ instCache = st.instCache
        /\ nextId = st.nextId
        /\ warmFailed = st.failed
        /\ apiKeys = EmptyDict
        /\ dbKeys = [p \in {PA} |-> K2]
        /\ batch = Idle
        /\ response = NoResponse
        /\ disk = InstalledDisk
        /\ loader = LoaderAfter(InstalledDisk)
        /\ probe = NoProbe
        /\ construction = NoConstruction
        /\ temp_file = FALSE
        /\ threads = NoThreads
        /\ pool = NoPool

\* the batch endpoint together with the background tasks of the result sink
SinkSpec == SinkInit /\ [][SinkNext]_vars

\* the probes a caller can ask for
ProbeCalls ==
    {c \in [pc : {"ready"}, via : {"adapter", "manager", "factory"},
            cls : AdapterClasses, provider_id : ProviderIds,
            api_key : Credentials, net : NetOutcomes, result : {NoProbeResult}] :
        /\ c.via = "adapter" => (HasTestConnection(c.cls) /\ c.provider_id = PA)
        /\ c.via = "factory" => c.provider_id = PA}

ProbeNext ==
    \/ test_connection
    \/ test_provider_connection
    \/ factory_test_provider_connection

\* a constructed manager, every provider warmed up, and a probe to be made
ProbeInit ==
    LET st == WarmUp(ProviderUniverse, {}, EmptyDict, 1,
                     [p \in ProviderUniverse |-> "ok"])
    IN  /\ phase = "warmed"
        /\ providers = ProviderUniverse
        /\ classCache = st.classCache
        /\ instCache = st.instCache
        /\ nextId = st.nextId
        /\ warmFailed = st.failed
        /\ apiKeys = EmptyDict
        /\ dbKeys = EmptyDict
        /\ batch = Idle
        /\ response = NoResponse
        /\ disk = InstalledDisk
        /\ loader = LoaderAfter(InstalledDisk)
        /\ probe \in ProbeCalls
        /\ construction = NoConstruction
        /\ temp_file = FALSE
        /\ threads = NoThreads
        /\ pool = NoPool

\* the connectivity probes under every adapter class, credential and network
\* outcome
ProbeSpec == ProbeInit /\ [][ProbeNext]_vars

\* the constructor calls a caller can make; SarvASR.__init__ takes no credential
ConstructorCalls ==
    {c \in [pc : {"ready"}, cls : ConstructibleClasses,
            api_key : ConstructorCredentials, net : NetOutcomes,
            access_token : {None}, requests : {<<>>}] :
        c.cls = "SarvASR" => c.api_key = None}

ConstructNext == construct

\* a constructed manager, and an adapter to be constructed
ConstructInit ==
    LET st == WarmUp(ProviderUniverse, {}, EmptyDict, 1,
                     [p \in ProviderUniverse |-> "ok"])
    IN  /\ phase = "warmed"
        /\ providers = ProviderUniverse
        /\ classCache = st.classCache
        /\ instCache = st.instCache
        /\ nextId = st.nextId
        /\ warmFailed = st.failed
        /\ apiKeys = EmptyDict
        /\ dbKeys = EmptyDict
        /\ batch = Idle
        /\ response = NoResponse
        /\ disk = InstalledDisk
        /\ loader = LoaderAfter(InstalledDisk)
        /\ probe = NoProbe
        /\ construction \in ConstructorCalls
        /\ temp_file = FALSE
        /\ threads = NoThreads
        /\ pool = NoPool

\* the adapter constructors under every class, credential and network outcome
ConstructSpec == ConstructInit /\ [][ConstructNext]_vars

\* the handlers that read and write credentials, for the credentials of every
\* provider: the admin endpoint stores a credential under any provider id
CredentialNext ==
    \/ startup_event
    \/ get_all_models
    \/ \E p \in ProviderUniverse, k \in {K1} : save_api_key(p, k)
    \/ \E p \in ProviderUniverse : delete_api_key(p)
    \/ \E language \in Languages, ids \in Requests : BatchStart(language, ids)
    \/ BatchStep

\* a process with an empty credential store whose manager has been
\* constructed, every provider warmed up
CredentialInit ==
    LET st == WarmUp(ProviderUniverse, {}, EmptyDict, 1,
                     [p \in ProviderUniverse |-> "ok"])
    IN  /\ phase = "warmed"
        /\ providers = ProviderUniverse
        /\ classCache = st.classCache
        /\ instCache = st.instCache
        /\ nextId = st.nextId
        /\ warmFailed = st.failed
        /\ apiKeys = EmptyDict
        /\ dbKeys = EmptyDict
        /\ batch = Idle
        /\ response = NoResponse
        /\ disk = InstalledDisk
        /\ loader = LoaderAfter(InstalledDisk)
        /\ probe = NoProbe
        /\ construction = NoConstruction
        /\ temp_file = FALSE
        /\ threads = NoThreads
        /\ pool = NoPool

\* the credential cache and the credential store under the handlers
CredentialSpec == CredentialInit /\ [][CredentialNext]_vars

PoolNext ==
    \/ \E n \in 1..MaxBatch : executor_submit(n)
    \/ task_start
    \/ task_end
    \/ executor_shutdown

\* a serving process, and batches of every size
PoolInit ==
    LET st == WarmUp(ProviderUniverse, {}, EmptyDict, 1,
                     [p \in ProviderUniverse |-> "ok"])
    IN  /\ phase = "serving"
        /\ providers = ProviderUniverse
        /\ classCache = st.classCache
        /\ instCache = st.instCache
        /\ nextId = st.nextId
        /\ warmFailed = st.failed
        /\ apiKeys = EmptyDict
        /\ dbKeys = EmptyDict
        /\ batch = Idle
        /\ response = NoResponse
        /\ disk = InstalledDisk
        /\ loader = LoaderAfter(InstalledDisk)
        /\ probe = NoProbe
        /\ construction = NoConstruction
        /\ temp_file = FALSE
        /\ threads = NoThreads
        /\ pool = NoPool

\* the worker threads of the batches
PoolSpec == PoolInit /\ [][PoolNext]_vars

\* the credential a worker passes for provider p
WorkerCredential(p) == IF RequiresApiKey(p) THEN K2 ELSE None

RaceNext ==
    \/ \E t \in WorkerThreads, p \in ProviderIds :
         get_provider_instance_lookup(t, p, WorkerCredential(p))
    \/ \E t \in WorkerThreads : get_provider_instance_construct(t)
    \/ \E t \in WorkerThreads : get_provider_instance_done(t)
    \/ \E p \in KeyedProviders : cache_api_key(p, WorkerCredential(p))
    \/ \E p \in ProviderUniverse \cup {None} : clear_api_key_cache(p)

\* a constructed manager after any warm-up, and two worker threads
RaceInit ==
    /\ \E o \in [ProviderUniverse -> WarmOutcomes] :
         LET st == WarmUp(ProviderUniverse, {}, EmptyDict, 1, o)
         IN  /\ classCache = st.classCache
             /\ instCache = st.instCache
             /\ nextId = st.nextId
             /\ warmFailed = st.failed
    /\ phase = "warmed"
    /\ providers = ProviderUniverse
    /\ apiKeys = EmptyDict
    /\ dbKeys = EmptyDict
    /\ batch = Idle
    /\ response = NoResponse
    /\ disk = InstalledDisk
    /\ loader = LoaderAfter(InstalledDisk)
    /\ probe = NoProbe
    /\ construction = NoConstruction
    /\ temp_file = FALSE
    /\ threads = [t \in WorkerThreads |-> IdleThread]
    /\ pool = NoPool

\* the ProviderManager under concurrent calls
RaceSpec == RaceInit /\ [][RaceNext]_vars

ArtifactNext ==
    \/ startup_event
    \/ \E language \in Languages, ids \in Requests : BatchStart(language, ids)
    \/ BatchStep
    \/ BatchAbort

\* the batch endpoint with the paths on which the handler raises
ArtifactSpec == SinkInit /\ [][ArtifactNext]_vars

ReloadNext ==
    \/ \E d \in ReloadDisks : change_providers_dir(d)
    \/ LoadProvidersStart
    \/ LoadProviderStep
    \/ LoadProvidersEnd
    \/ \E p \in ProviderUniverse, k \in {None, K2} : get_provider_instance(p, k)
    \/ \E p \in KeyedProviders : cache_api_key(p, K2)

\* a constructed manager after any warm-up
ReloadInit ==
    /\ \E o \in [ProviderUniverse -> WarmOutcomes] :
         LET st == WarmUp(ProviderUniverse, {}, EmptyDict, 1, o)
         IN  /\ classCache = st.classCache
             /\ instCache = st.instCache
             /\ nextId = st.nextId
             /\ warmFailed = st.failed
    /\ phase = "warmed"
    /\ providers = ProviderUniverse
    /\ apiKeys = EmptyDict
    /\ dbKeys = EmptyDict
    /\ batch = Idle
    /\ response = NoResponse
    /\ disk = InstalledDisk
    /\ loader = LoaderAfter(InstalledDisk)
    /\ probe = NoProbe
    /\ construction = NoConstruction
    /\ temp_file = FALSE
    /\ threads = NoThreads
    /\ pool = NoPool

\* reload_providers between the calls of a constructed manager, over a
\* providers directory that changes
ReloadSpec == ReloadInit /\ [][ReloadNext]_vars

LoadNext ==
    \/ LoadProvidersStart
    \/ LoadProviderStep
    \/ LoadProvidersEnd

\* a manager under construction, over any content of the providers directory
LoadInit ==
    /\ phase = "constructing"
    /\ providers = {}
    /\ classCache = {}
    /\ instCache = EmptyDict
    /\ apiKeys = EmptyDict
    /\ dbKeys = EmptyDict
    /\ nextId = 1
    /\ warmFailed = {}
    /\ batch = Idle
    /\ response = NoResponse
    /\ disk \in Disks
    /\ loader = NotLoaded
    /\ probe = NoProbe
    /\ construction = NoConstruction
    /\ temp_file = FALSE
    /\ threads = NoThreads
    /\ pool = NoPool

\* the descriptor store: the load of __init__ and every later reload_providers,
\* statement by statement as another thread can observe them
LoadSpec == LoadInit /\ [][LoadNext]_vars

---------------------------------------------------------------------------
(* Properties of the web application, checked under Spec *)

\* C4, as the claim states it: every task of a running batch whose provider
\* requires a credential is run with the credential the database holds for
\* that provider at that time; saving or deleting a credential is followed by
\* no batch that runs the provider with the credential held before.
C4_BatchUsesStoredCredential ==
    batch.pc = "running" =>
        \A i \in 1..Len(batch.tasks) :
            RequiresApiKey(batch.tasks[i].provider_id)
              => batch.tasks[i].api_key = DictGet(dbKeys, batch.tasks[i].provider_id)

\* the pair a selectable model id names
PairOf(id) == CHOOSE pr \in SelectablePairs : ModelInfoId(pr[1], pr[2]) = id

\* whether the credential cache ak satisfies the credential requirement of p
CredentialSatisfied(ak, p) == ~RequiresApiKey(p) \/ Truthy(DictGet(ak, p))

\* the selected pairs with a known provider and a satisfied requirement
ValidPairIndices(ids, ak) ==
    {i \in 1..Len(ids) : /\ PairOf(ids[i])[1] \in providers
                         /\ CredentialSatisfied(ak, PairOf(ids[i])[1])}

\* C8, as the claim states it: every request that selects at least one pair
\* is answered with a result list, never with a failure, and the number of
\* results is the number of selected pairs whose provider is known and whose
\* credential requirement is satisfied.
C8_ResultPerValidPair ==
    (response.status # 0 /\ Len(response.selected_model_ids) > 0) =>
        /\ response.status = 200
        /\ Len(response.results) =
             Cardinality(ValidPairIndices(response.selected_model_ids, apiKeys))

\* the models a batch runs: the distinct models of the loaded providers that
\* support the language, are named by the request and have their credential
\* requirement satisfied by the credential cache
RunnableModels(language, ids, ak) ==
    UNION {{<<p, ModelsOf(p)[j].id>> :
                j \in {n \in 1..Len(ModelsOf(p)) :
                         /\ language \in ModelsOf(p)[n].supported_languages
                         /\ \E i \in 1..Len(ids) :
                              ids[i] = ModelInfoId(p, ModelsOf(p)[n].id)}} :
           p \in {q \in providers : CredentialSatisfied(ak, q)}}

\* the (provider, model) pairs of a sequence of tasks or results
PairsOf(rs) == {<<rs[i].provider_id, rs[i].model_id>> : i \in 1..Len(rs)}

\* the results that tasks returned: all but the entries of the except clause
TaskResults(rs) == SelectSeq(rs, LAMBDA r : r # ErrorResult)

\* C8, amended: a batch runs exactly one task, and returns exactly one result,
\* for each distinct model that the request names, that a loaded provider
\* offers for the language and whose provider requires no credential or has
\* one in the credential cache; every other selected pair is dropped and
\* appears in no result; the request is rejected with status 400 and no
\* result exactly when it names no model or every pair it names is dropped.
C8_ResultPerRunnableModel ==
    /\ batch.pc = "running" =>
         LET run == RunnableModels(batch.language, batch.selected_model_ids, apiKeys)
         IN  /\ PairsOf(batch.tasks) = run
             /\ Len(batch.tasks) = Cardinality(run)
             /\ PairsOf(TaskResults(batch.results)) \subseteq run
    /\ response.status # 0 =>
         LET run == RunnableModels(response.language, response.selected_model_ids,
                                   apiKeys)
         IN  /\ response.status \in {200, 400}
             /\ response.status = 400 <=> (response.selected_model_ids = <<>> \/ run = {})
             /\ response.status = 400 => response.results = <<>>
             /\ response.status = 200 =>
                  /\ Len(TaskResults(response.results)) = Cardinality(run)
                  /\ PairsOf(TaskResults(response.results)) = run

\* C8 witness: a batch returned after a selected pair had been dropped
C8_ReturnedWithDroppedPair ==
    /\ response.status = 200
    /\ Len(response.results) < Len(response.selected_model_ids)
    /\ \E i \in 1..Len(response.selected_model_ids) :
         PairOf(response.selected_model_ids[i]) \notin PairsOf(response.results)

\* the sum of a field over the results at the indices I
RECURSIVE SumAt(_, _, _)
SumAt(rs, I, field) ==
    IF I = {} THEN 0
    ELSE LET i == CHOOSE j \in I : TRUE
         IN  rs[i][field] + SumAt(rs, I \ {i}, field)

\* whether the fraction mean is the mean of the sum total over n values, 0 if n = 0
IsMeanOf(mean, total, n) ==
    /\ mean.den > 0
    /\ IF n = 0 THEN mean.num = 0 ELSE mean.num * n = total * mean.den

\* C9: in the session of every returned batch, the mean processing time and
\* the mean confidence are the means over the results with success = TRUE
\* only, both are 0 when no result succeeded, their denominators are never 0,
\* and successful_models + failed_models is the number of results.
C9_SessionAggregates ==
    response.status = 200 =>
        LET rs == response.results
            ok == {i \in 1..Len(rs) : rs[i].success}
            s == response.session
        IN  /\ s.successful_models = Cardinality(ok)
            /\ s.successful_models + s.failed_models = Len(rs)
            /\ IsMeanOf(s.avg_processing_time, SumAt(rs, ok, "processing_time"),
                        Cardinality(ok))
            /\ IsMeanOf(s.avg_confidence, SumAt(rs, ok, "confidence"),
                        Cardinality(ok))

\* C9 witness: a returned batch with a success and a failure that took time
C9_MixedResults ==
    /\ response.status = 200
    /\ \E i \in 1..Len(response.results), j \in 1..Len(response.results) :
         /\ response.results[i].success
         /\ ~response.results[j].success
         /\ response.results[j].processing_time > 0

\* C10, as the claim states it: a batch with a task whose adapter call never
\* returns is not held up by it: as long as the batch runs it can take a
\* step, the step that gives the task its Timeout result included, so it
\* returns.
C10_HungTaskDoesNotBlock ==
    (/\ batch.pc = "running"
     /\ \E i \in 1..Len(batch.workers) : batch.workers[i].pc = "hung")
        => ENABLED BatchStep

\* the workers of the running batch in one of the positions pcs
WorkersAt(pcs) == {i \in 1..Len(batch.workers) : batch.workers[i].pc \in pcs}

\* C11: in every state of a running batch, whatever its tasks have returned
\* so far, a task that has finished without success has a result of its own
\* pair with success = FALSE and an error message; every task that has not
\* finished can still take its step (resolve its adapter, receive the answer
\* of its adapter), so no sibling is cancelled; once every result is
\* collected the handler can return; and every return of a running batch is
\* a normal one (status 200) that carries the result of every task.
C11_FailureIsolation ==
    /\ [](batch.pc = "running" =>
            /\ \A i \in WorkersAt({"done", "collected"}) :
                 LET r == batch.workers[i].result
                 IN  /\ r.provider_id = batch.tasks[i].provider_id
                     /\ r.model_id = batch.tasks[i].model_id
                     /\ ~r.success => r.error # "none"
            /\ \A i \in WorkersAt({"queued"}) : ENABLED WorkerResolve(i)
            /\ \A i \in WorkersAt({"resolved"}) : ENABLED WorkerCall(i)
            /\ \A i \in WorkersAt({"done"}) : ENABLED Collect(i)
            /\ WorkersAt({"collected"}) = 1..Len(batch.workers) => ENABLED BatchFinish)
    /\ [][(batch.pc = "running" /\ batch'.pc = "idle") =>
            /\ response'.status = 200
            /\ \A i \in 1..Len(batch.workers) :
                 \E n \in 1..Len(response'.results) :
                    response'.results[n] = batch.workers[i].result]_vars

\* C11 witness: a batch returned in which one task failed to resolve its
\* adapter or raised, and another task succeeded
C11_ReturnedWithFailureAndSuccess ==
    /\ response.status = 200
    /\ \E i \in 1..Len(response.results), j \in 1..Len(response.results) :
         /\ response.results[i].error \in {"instantiate", "exception"}
         /\ response.results[j].success

C13_ExactlyOneResultPerTask ==
    /\ batch.pc = "running" =>
         Len(batch.results) = Cardinality(WorkersAt({"collected"}))
    /\ response.status = 200 =>
         /\ Len(response.results) = response.session.total_models
         /\ response.session.successful_models + response.session.failed_models
              = response.session.total_models

\* C14, as the claim states it: no sink write is executed by the handler
\* itself; until the response is returned every write has only been scheduled
\* as a background task.
C14_NoSynchronousSinkWrite ==
    /\ batch.sync_writes = <<>>
    /\ response.sync_writes = <<>>

\* the writes of kind to backend that were handed over for the result r
WritesFor(writes, backend, r) ==
    {j \in 1..Len(writes) :
        /\ writes[j].backend = backend
        /\ writes[j].kind = "result"
        /\ writes[j].provider_id = r.provider_id
        /\ writes[j].model_id = r.model_id
        /\ writes[j].success = r.success}

\* C15, as the claim states it: every result of a completed batch, successful
\* or failed, and the session are each submitted to the durable store and to
\* the search index.
C15_EveryResultAndSessionToBothBackends ==
    response.status = 200 =>
        LET writes == response.scheduled \o response.sync_writes
        IN  /\ \A n \in 1..Len(response.results) :
                 /\ WritesFor(writes, "db", response.results[n]) # {}
                 /\ WritesFor(writes, "es", response.results[n]) # {}
            /\ \E j \in 1..Len(writes) :
                 writes[j].backend = "db" /\ writes[j].kind = "session"
            /\ \E j \in 1..Len(writes) :
                 writes[j].backend = "es" /\ writes[j].kind = "session"

---------------------------------------------------------------------------
(* Properties of the result sink, checked under SinkSpec *)

\* the two scheduled writes i and j are the writes of one result
SameResult(i, j) ==
    /\ response.scheduled[i].kind = "result"
    /\ response.scheduled[j].kind = "result"
    /\ response.scheduled[i].provider_id = response.scheduled[j].provider_id
    /\ response.scheduled[i].model_id = response.scheduled[j].model_id

\* C16: a write of a result that failed or raised in one backend neither
\* prevents nor fails the write of the same result to the other backend, which
\* can still run and succeed; running a write changes no other write's outcome
\* and nothing of the response the caller of the batch received.
C16_SinkBackendsIndependent ==
    /\ [](\A j \in 1..Len(response.outcome) :
            (Serving /\ response.outcome[j] = "pending")
              => ENABLED (RunBackgroundTask(j) /\ response'.outcome[j] = "ok"))
    /\ [][\A j \in 1..Len(response.outcome) :
            RunBackgroundTask(j) =>
              /\ response'.status = response.status
              /\ response'.results = response.results
              /\ response'.session = response.session
              /\ \A i \in 1..Len(response.outcome) :
                   i # j => response'.outcome[i] = response.outcome[i]]_vars

\* C16 witness: the search-index write of a result failed or raised and the
\* durable-store write of the same result succeeded
C16_IndexFailedSaveSucceeded ==
    /\ response.status = 200
    /\ \E i, j \in 1..Len(response.scheduled) :
         /\ SameResult(i, j)
         /\ response.scheduled[i].backend = "es"
         /\ response.scheduled[j].backend = "db"
         /\ response.outcome[i] \in {"failed", "raised"}
         /\ response.outcome[j] = "ok"

---------------------------------------------------------------------------
(* Properties of the descriptor store, checked under LoadSpec *)

\* a descriptor with every field the specification requires
ValidDescriptor(e) ==
    /\ e.config = "parsed"
    /\ e.id # None
    /\ e.name
    /\ e.models >= 1
    /\ e.languages >= 1

\* C17, as the claim states it: after _load_providers the store holds exactly
\* the descriptors that have an identifier, a display name, a capability type,
\* at least one model and at least one supported language; the others are
\* skipped without ending the load.
C17_StoreHoldsExactlyValidDescriptors ==
    (loader.pc = "idle" /\ loader.loaded) =>
        /\ providers = {disk[n].id : n \in {i \in 1..Len(disk) : ValidDescriptor(disk[i])}}
        /\ \A p \in providers :
             /\ loader.config[p].name
             /\ loader.config[p].provider_type # None
             /\ loader.config[p].models >= 1
             /\ loader.config[p].languages >= 1

\* C18, as the claim states it: once the manager is constructed, a read made
\* at any moment of a reload finds every provider that the directory holds
\* before and after the reload, with the configuration of a complete load.
C18_ReadersSeeCompleteSet ==
    loader.loaded =>
        \A p \in LoadedFrom(disk).providers :
            /\ GetProviderConfig(providers, loader.config, p) = LoadedFrom(disk).config[p]
            /\ \A k \in Credentials, loadOk \in BOOLEAN, initOk \in BOOLEAN :
                 GetProviderInstance(providers, classCache, instCache, nextId,
                                     p, k, loadOk, initOk).raised # "ValueError"

---------------------------------------------------------------------------
(* Properties of the connectivity probes, checked under ProbeSpec *)

\* C19: for every adapter class, credential and network outcome, a probe made
\* through the adapter's test_connection, ProviderManager.test_provider_connection
\* or UniversalProviderFactory.test_provider_connection returns a result with a
\* success flag and propagates no exception; a transport exception of the
\* request and an unknown provider are reported as success = false.
C19_ProbeNeverRaises ==
    probe.pc = "returned" =>
        /\ ~probe.result.raised
        /\ probe.result.success \in BOOLEAN
        /\ ( \/ (probe.result.called /\ probe.net = "exception")
             \/ (probe.via = "manager" /\ probe.provider_id \notin providers) )
             => ~probe.result.success

\* C19 witness: a probe through the manager has returned although resolving
\* the provider raised
C19_ProbeReturnedAfterException ==
    /\ probe.pc = "returned"
    /\ probe.via = "manager"
    /\ probe.provider_id = PZ
    /\ ~probe.result.success

\* C20, as the claim states it: a probe reports success only after a request
\* to the vendor endpoint was sent and answered successfully.
C20_SuccessOnlyAfterVendorAnswered ==
    (probe.pc = "returned" /\ probe.result.success) =>
        /\ probe.result.called
        /\ probe.result.answer = "200"

---------------------------------------------------------------------------
(* Further properties of the registry, checked under RegistrySpec *)

\* C21: for a provider that requires a credential, get_provider_instance
\* without a credential returns an adapter whenever the import and the
\* constructor succeed, the adapter holds no credential, and every operation
\* invoked on it returns a result with success = false and the error
\* 'API key not provided'.
C21_LazyCredentialFailure ==
    Constructed =>
        \A p \in providers, k \in {None, EmptyStr} :
            RequiresApiKey(p) =>
                LET g == GetProviderInstance(providers, classCache, instCache,
                                             nextId, p, k, TRUE, TRUE)
                IN  /\ g.raised = "none"
                    /\ g.instance.provider_id = p
                    /\ ~Truthy(g.instance.api_key)
                    /\ \A n \in 1..Len(ModelsOf(p)) :
                         \A r \in AdapterResults(g.instance,
                                    [provider_id |-> p, model_id |-> ModelsOf(p)[n].id,
                                     api_key |-> k]) :
                             ~r.success /\ r.error = "API key not provided"

\* C21 witness: an adapter of a provider that requires a credential has been
\* constructed without one and is cached
C21_ConstructedWithoutCredential ==
    /\ Constructed
    /\ \E p \in providers :
         /\ RequiresApiKey(p)
         /\ CacheKey(p, None) \in DOMAIN instCache
         /\ instCache[CacheKey(p, None)].provider_id = p
         /\ ~Truthy(instCache[CacheKey(p, None)].api_key)

\* C27: in every state of the registry, for every provider p of the store and
\* every credential k, the instance get_provider_instance(p, k) returns is an
\* instance of p that holds the credential k (no credential when k is absent
\* or empty, or when p takes none); so no two pairs of different providers, or
\* of different credentials, share a cache entry.
C27_CacheKeyInjective ==
    Constructed =>
        \A p \in providers, k \in Credentials :
            LET g == GetProviderInstance(providers, classCache, instCache, nextId,
                                         p, k, TRUE, TRUE)
            IN  /\ g.raised = "none"
                /\ g.instance.provider_id = p
                /\ IF RequiresApiKey(p) /\ Truthy(k)
                   THEN g.instance.api_key = k
                   ELSE ~Truthy(g.instance.api_key)

\* C28: clear_api_key_cache(p) leaves the cached credential and every cached
\* instance of every other provider q # p as they were, and leaves the class
\* cache and the descriptor store unchanged.
C28_InvalidateFrame ==
    [][\A p \in ProviderIds :
          clear_api_key_cache(p) =>
              /\ \A q \in ProviderIds \ {p} :
                   /\ DictGet(apiKeys', q) = DictGet(apiKeys, q)
                   /\ \A key \in InstanceKeysOf(instCache, q) :
                        /\ key \in DOMAIN instCache'
                        /\ instCache'[key] = instCache[key]
              /\ classCache' = classCache
              /\ providers' = providers
              /\ loader' = loader]_vars

---------------------------------------------------------------------------
(* Properties of the adapter constructors, checked under ConstructSpec *)

\* C22: for every adapter class and every credential value (absent, plain
\* key, service-account JSON blob), constructing the adapter sends no network
\* request.
C22_NoNetworkInConstruction ==
    construction.pc = "constructed" => construction.requests = <<>>

---------------------------------------------------------------------------
(* Properties of the credential cache, checked under CredentialSpec *)

\* the request test_multiple_models has answered with 400 or is running
AnsweredIds == IF batch.pc = "running" THEN batch.selected_model_ids
               ELSE response.selected_model_ids

AnsweredLanguage == IF batch.pc = "running" THEN batch.language
                    ELSE response.language

\* C23: for every selected pair whose provider requires a credential that the
\* credential store holds, test_multiple_models has the credential in the
\* cache after its lookup and executes the pair, whether the cache was empty
\* or held other providers' credentials when the request arrived.
C23_BatchFallsBackToStore ==
    (batch.pc = "running" \/ response.status = 400) =>
        \A n \in 1..Len(AnsweredIds) :
            LET p == PairOf(AnsweredIds[n])[1]
            IN  ( /\ p \in providers
                  /\ RequiresApiKey(p)
                  /\ \E m \in Range(GetModelsForLanguage(providers, AnsweredLanguage)) :
                        m.id = AnsweredIds[n]
                  /\ Truthy(DictGet(dbKeys, p)) )
                => /\ Truthy(GetCachedApiKey(apiKeys, p))
                   /\ batch.pc = "running"
                   /\ \E j \in 1..Len(batch.tasks) :
                        /\ batch.tasks[j].provider_id = p
                        /\ batch.tasks[j].model_id = PairOf(AnsweredIds[n])[2]

---------------------------------------------------------------------------
(* Properties of the thread pool, checked under PoolSpec *)

\* C24: for every batch size n, the number of worker threads running tasks
\* of one batch at the same time never exceeds the maximum concurrency of 50,
\* and the pool has n worker threads when n is below that maximum.
C24_PoolBounded ==
    pool.pc = "open" =>
        /\ pool.running <= 50
        /\ pool.n < 50 => pool.max_workers = pool.n

---------------------------------------------------------------------------
(* Further properties of the batch, checked under Spec *)

\* the results rs in the order pi
Reordered(rs, pi) == [i \in 1..Len(rs) |-> rs[pi[i]]]

\* C25: in every interleaving of the workers of a batch, the session is
\* computed when every submitted task has produced its result and the result
\* is in the result list, it counts every result as a success or a failure,
\* and it has the same value for every order in which the results could have
\* completed.
C25_AggregateAfterAllResultsAnyOrder ==
    [][(batch.pc = "running" /\ batch'.pc = "idle") =>
         /\ \A i \in 1..Len(batch.tasks) :
              /\ batch.workers[i].pc = "collected"
              /\ \E n \in 1..Len(batch.results) :
                   batch.results[n] = batch.workers[i].result
         /\ response'.session.successful_models
              + response'.session.failed_models = Len(batch.results)
         /\ \A pi \in Permutations(1..Len(batch.results)) :
              SessionData(Reordered(batch.results, pi), batch.tasks)
                = response'.session]_vars

\* C25 witness: a batch returned two successful results that took different
\* times
C25_ReturnedTwoDifferentSuccesses ==
    /\ response.status = 200
    /\ \E i \in 1..Len(response.results), j \in 1..Len(response.results) :
         /\ response.results[i].success
         /\ response.results[j].success
         /\ response.results[i].processing_time
              # response.results[j].processing_time

---------------------------------------------------------------------------
(* Properties of the registry under concurrent calls, checked under RaceSpec *)

\* C26: two workers that call get_provider_instance(p, k) with no
\* invalidation of p in between receive the identical instance, so at most
\* one adapter is constructed for (p, k) between two invalidations; and a call
\* with a credential that an invalidation of p overtook leaves no instance of
\* its own in the cache.
C26_ConcurrentResolve ==
    /\ \A t1 \in DOMAIN threads, t2 \in DOMAIN threads :
         ( /\ threads[t1].pc = "returned"
           /\ threads[t2].pc = "returned"
           /\ threads[t1].provider_id = threads[t2].provider_id
           /\ threads[t1].api_key = threads[t2].api_key
           /\ ~threads[t1].invalidated
           /\ ~threads[t2].invalidated )
           => threads[t1].instance = threads[t2].instance
    /\ \A t \in DOMAIN threads :
         ( /\ threads[t].pc = "returned"
           /\ threads[t].invalidated
           /\ Truthy(threads[t].api_key) )
           => \A key \in DOMAIN instCache : instCache[key] # threads[t].instance

---------------------------------------------------------------------------
(* Properties of the input file, checked under ArtifactSpec *)

\* C29: the temporary input file exists as long as a worker of the batch has
\* not finished its adapter call, and it is gone whenever the handler is not
\* running, whether it returned, raised or rejected the request before the
\* file was created.
C29_InputFileLifetime ==
    /\ \A i \in 1..Len(batch.workers) :
         batch.workers[i].pc \in {"queued", "resolved", "hung"} => temp_file
    /\ batch.pc = "running" => temp_file
    /\ batch.pc = "idle" => ~temp_file

\* C29 witness: the handler has returned the result of an adapter call that
\* read the file, and the file is gone
C29_ReturnedAfterAdapterCall ==
    /\ batch.pc = "idle"
    /\ ~temp_file
    /\ response.status = 200
    /\ \E n \in 1..Len(response.results) : response.results[n].success

---------------------------------------------------------------------------
(* Properties of reload_providers, checked under ReloadSpec *)

\* C30: no statement of reload_providers changes the class cache, the
\* instance cache or the credential cache; once a reload has completed,
\* get_provider_instance(p, k) for a provider p of the store returns the
\* instance that is cached for (p, k) and constructs nothing; and the
\* descriptors after a completed reload are those of the providers directory
\* alone, so that reloading an unchanged directory yields the same
\* descriptors.
C30_ReloadFrame ==
    /\ [][(LoadProvidersStart \/ LoadProviderStep \/ LoadProvidersEnd) =>
            /\ classCache' = classCache
            /\ instCache' = instCache
            /\ apiKeys' = apiKeys]_vars
    /\ [][LoadProvidersEnd =>
            /\ providers' = LoadedFrom(disk).providers
            /\ loader'.config = LoadedFrom(disk).config]_vars
    /\ []((Constructed /\ loader.pc = "idle") =>
            \A p \in providers, k \in Credentials :
                CacheKey(p, k) \in DOMAIN instCache =>
                    LET g == GetProviderInstance(providers, classCache, instCache,
                                                 nextId, p, k, TRUE, TRUE)
                    IN  /\ g.raised = "none"
                        /\ g.instance = instCache[CacheKey(p, k)]
                        /\ ~g.constructed)

\* C30 witness: a reload has completed on a directory from which provider
\* a_b had been removed; the instances cached before are still cached, that
\* of the provider still in the store and that of the removed one
C30_ReloadedWithCachedInstances ==
    /\ loader.pc = "idle"
    /\ disk = <<Installed(PA)>>
    /\ providers = {PA}
    /\ CacheKey(PA, K2) \in DOMAIN instCache
    /\ CacheKey(PAB, None) \in DOMAIN instCache

===========================================================================
